---- MODULE Spec2Model ----
(***************************************************************************)
(* Combat resolution engine of the text adventure: Player and Enemy        *)
(* combatants (game/player.py, game/enemies.py), potions (game/items.py)   *)
(* and the encounter loop Combat.initiate_combat (game/combat.py).         *)
(***************************************************************************)
EXTENDS Integers, Sequences, FiniteSets, TLC

(***************************************************************************)
(* Bounds of the model                                                     *)
(***************************************************************************)
\* number of direct calls (take_damage, heal, gain_experience, defend, ...)
\* made on the combatants before the encounter is started
MaxOps == 2

\* number of quest rewards granted by the calls on the Story
MaxCompletions == 2

\* number of direct calls made on the player when leveling is examined
MaxLevelOps == 4

\* number of constructions of and direct calls on enemies
MaxEnemyOps == 3

\* number of equip_item, unequip_item and use_item calls
MaxItemOps == 3

(***************************************************************************)
(* Small helpers                                                           *)
(***************************************************************************)
Max(a, b) == IF a >= b THEN a ELSE b
Min(a, b) == IF a <= b THEN a ELSE b

\* str.lower() on the names that occur in the model
Lower(s) ==
  CASE s = "Goblin" -> "goblin"
    [] s = "Orc" -> "orc"
    [] s = "Troll" -> "troll"
    [] s = "Health Potion" -> "health potion"
    [] s = "Strength Potion" -> "strength potion"
    [] s = "Odd Potion" -> "odd potion"
    [] s = "Leather Armor" -> "leather armor"
    [] s = "Chain Mail" -> "chain mail"
    [] s = "Sword" -> "sword"
    [] s = "Axe" -> "axe"
    [] s = "Cloak" -> "cloak"
    [] OTHER -> s

(***************************************************************************)
(* Items (game/items.py)                                                   *)
(***************************************************************************)
NoItem == [name |-> "", item_type |-> "None", effect_type |-> "",
           effect_strength |-> 0, damage |-> 0, defense |-> 0, armor_slot |-> ""]

Potion(name, effect_type, effect_strength) ==
  [name |-> name, item_type |-> "Potion", effect_type |-> effect_type,
   effect_strength |-> effect_strength, damage |-> 0, defense |-> 0, armor_slot |-> ""]

Armor(name, defense, armor_slot) ==
  [name |-> name, item_type |-> "Armor", effect_type |-> "",
   effect_strength |-> 0, damage |-> 0, defense |-> defense, armor_slot |-> armor_slot]

Weapon(name, damage) ==
  [name |-> name, item_type |-> "Weapon", effect_type |-> "",
   effect_strength |-> 0, damage |-> damage, defense |-> 0, armor_slot |-> ""]

HealthPotion == Potion("Health Potion", "heal", 30)
StrengthPotion == Potion("Strength Potion", "strength_boost", 3)
LeatherArmor == Armor("Leather Armor", 3, "body")
ChainMail == Armor("Chain Mail", 6, "body")
\* an armor whose armor_slot is no key of equipped_items
Cloak == Armor("Cloak", 1, "back")
Sword == Weapon("Sword", 5)
Axe == Weapon("Axe", 8)

Slots == {"head", "body", "hands", "legs", "feet", "main_hand", "off_hand", "ring_1", "ring_2"}

(***************************************************************************)
(* Player (game/player.py)                                                 *)
(***************************************************************************)
\* Player.__init__
PlayerInit ==
  [inventory |-> <<>>,
   equipped_items |-> [s \in Slots |-> NoItem],
   max_health |-> 100, health |-> 100,
   max_mana |-> 50, mana |-> 50,
   attack_power |-> 10, defense |-> 5,
   strength |-> 10, dexterity |-> 10, intelligence |-> 10,
   experience |-> 0, level |-> 1, gold |-> 0,
   defending |-> FALSE]

RECURSIVE SumSet(_, _)
\* sum of f[x] over the finite set S
SumSet(f, S) ==
  IF S = {} THEN 0
  ELSE LET x == CHOOSE y \in S : TRUE IN f[x] + SumSet(f, S \ {x})

get_effective_attack_power(p) ==
  LET total_attack == p.attack_power + (p.strength \div 2)
  IN IF p.equipped_items["main_hand"].item_type = "Weapon"
       THEN total_attack + p.equipped_items["main_hand"].damage
       ELSE total_attack

\* get_effective_defense without the dexterity bonus
get_effective_defense_no_dexterity(p) ==
  LET armor == [s \in Slots |-> IF p.equipped_items[s].item_type = "Armor"
                                  THEN p.equipped_items[s].defense ELSE 0]
      total_defense == p.defense + SumSet(armor, Slots)
  IN IF p.defending THEN total_defense * 2 ELSE total_defense

get_effective_defense(p) ==
  LET armor == [s \in Slots |-> IF p.equipped_items[s].item_type = "Armor"
                                  THEN p.equipped_items[s].defense ELSE 0]
      total_defense == p.defense + (p.dexterity \div 2) + SumSet(armor, Slots)
  IN IF p.defending THEN total_defense * 2 ELSE total_defense

Player_get_initiative_bonus(p) == p.dexterity \div 2

Player_is_alive(p) == p.health > 0

\* take_damage without the clamp at 0
Player_take_damage_unclamped(p, damage) ==
  LET effective_defense == get_effective_defense(p)
      actual_damage == Max(0, damage - effective_defense)
  IN [p EXCEPT !.health = p.health - actual_damage]

Player_take_damage(p, damage) ==
  LET effective_defense == get_effective_defense(p)
      actual_damage == Max(0, damage - effective_defense)
      h == p.health - actual_damage
  IN [p EXCEPT !.health = IF h < 0 THEN 0 ELSE h]

\* heal without the cap at max_health
heal_uncapped(p, amount) == [p EXCEPT !.health = p.health + amount]

heal(p, amount) == [p EXCEPT !.health = Min(p.max_health, p.health + amount)]

defend(p) == [p EXCEPT !.defending = TRUE]

\* the flag left as it is
reset_defense_keeps_flag(p) == p

reset_defense(p) == [p EXCEPT !.defending = FALSE]

\* experience >= 100 * level ** 1.5, compared exactly: both sides are
\* non-negative, so e >= 100 * l^1.5 iff e^2 >= 10000 * l^3
xp_reaches_next_level(p) ==
  p.experience >= 0 /\ p.experience * p.experience >= 10000 * p.level * p.level * p.level

level_up(p) ==
  [p EXCEPT !.level = @ + 1,
            !.max_health = @ + 10,
            !.health = p.max_health + 10,
            !.max_mana = @ + 5,
            !.mana = p.max_mana + 5,
            !.attack_power = @ + 2,
            !.defense = @ + 1,
            !.strength = @ + 1,
            !.dexterity = @ + 1,
            !.intelligence = @ + 1]

RECURSIVE level_up_loop(_)
level_up_loop(p) == IF xp_reaches_next_level(p) THEN level_up_loop(level_up(p)) ELSE p

\* the award followed by at most one level-up
gain_experience_one_level(p, amount) ==
  LET q == [p EXCEPT !.experience = @ + amount]
  IN IF xp_reaches_next_level(q) THEN level_up(q) ELSE q

\* Player.gain_experience(amount)
gain_experience(p, amount) == level_up_loop([p EXCEPT !.experience = @ + amount])

\* Potion.use(target): the effect applied to the player.  strength_boost calls
\* target.apply_buff, a method Player does not define: AttributeError.
Potion_use(item, p) ==
  CASE item.effect_type = "heal" ->
         [p |-> heal(p, item.effect_strength), raised |-> FALSE, ok |-> TRUE]
    [] item.effect_type = "strength_boost" ->
         [p |-> p, raised |-> TRUE, ok |-> FALSE]
    [] OTHER -> [p |-> p, raised |-> FALSE, ok |-> TRUE]

\* s without its i-th element (list.pop(i))
Pop(s, i) == [k \in 1..(Len(s) - 1) |-> IF k < i THEN s[k] ELSE s[k + 1]]

\* Player.use_item(item_name): the first inventory entry with that name that is
\* a Potion decides the call
use_item(p, item_name) ==
  LET hits == {i \in 1..Len(p.inventory) :
                 /\ Lower(p.inventory[i].name) = Lower(item_name)
                 /\ p.inventory[i].item_type = "Potion"}
  IN IF hits = {}
       THEN [p |-> p, raised |-> FALSE, ok |-> FALSE]
       ELSE LET i == CHOOSE k \in hits : \A m \in hits : k <= m
                r == Potion_use(p.inventory[i], p)
            IN IF r.raised THEN r
               ELSE IF r.ok
                 THEN [p |-> [r.p EXCEPT !.inventory = Pop(@, i)], raised |-> FALSE, ok |-> TRUE]
                 ELSE [p |-> r.p, raised |-> FALSE, ok |-> FALSE]

\* equip_item that forgets the item it takes out of a slot
equip_item_drops_old(p, item_name) ==
  LET hits == {i \in 1..Len(p.inventory) : Lower(p.inventory[i].name) = Lower(item_name)}
  IN IF hits = {} THEN p
     ELSE LET i == CHOOSE k \in hits : \A m \in hits : k <= m
              item_to_equip == p.inventory[i]
              popped == [p EXCEPT !.inventory = Pop(@, i)]
              slot == IF item_to_equip.item_type = "Weapon" THEN "main_hand"
                      ELSE item_to_equip.armor_slot
          IN IF item_to_equip.item_type \in {"Weapon", "Armor"} /\ slot \in Slots
               THEN [popped EXCEPT !.equipped_items[slot] = item_to_equip]
               ELSE [popped EXCEPT !.inventory = Append(@, item_to_equip)]

\* Player.equip_item(item_name): the first inventory entry with that name is taken
\* out; a weapon goes to main_hand, an armor to its armor_slot, what was in the
\* slot goes to the end of the inventory; anything else, and an armor whose slot
\* is no key of equipped_items, is put back at the end of the inventory
equip_item(p, item_name) ==
  LET hits == {i \in 1..Len(p.inventory) : Lower(p.inventory[i].name) = Lower(item_name)}
  IN IF hits = {} THEN p
     ELSE LET i == CHOOSE k \in hits : \A m \in hits : k <= m
              item_to_equip == p.inventory[i]
              popped == [p EXCEPT !.inventory = Pop(@, i)]
              slot == IF item_to_equip.item_type = "Weapon" THEN "main_hand"
                      ELSE item_to_equip.armor_slot
          IN IF item_to_equip.item_type \in {"Weapon", "Armor"} /\ slot \in Slots
               THEN [popped EXCEPT
                       !.inventory = IF p.equipped_items[slot] # NoItem
                                       THEN Append(@, p.equipped_items[slot]) ELSE @,
                       !.equipped_items[slot] = item_to_equip]
               ELSE [popped EXCEPT !.inventory = Append(@, item_to_equip)]

\* Player.unequip_item(slot_name)
unequip_item(p, slot_name) ==
  IF slot_name \in Slots /\ p.equipped_items[slot_name] # NoItem
    THEN [p EXCEPT !.inventory = Append(@, p.equipped_items[slot_name]),
                   !.equipped_items[slot_name] = NoItem]
    ELSE p

(***************************************************************************)
(* Enemies (game/enemies.py)                                               *)
(***************************************************************************)
\* Enemy.__init__: the initiative_bonus argument is not stored, the field is 0
Enemy(name, health, attack_power, defense, initiative_bonus, loot_xp, loot_items, enemy_type) ==
  [name |-> name, max_health |-> health, health |-> health,
   attack_power |-> attack_power, defense |-> defense,
   initiative_bonus |-> 0,
   loot_xp |-> loot_xp, loot_items |-> loot_items, enemy_type |-> enemy_type]

\* Goblin.__init__ with its default arguments
Goblin == Enemy("Goblin", 20, 5, 2, 0, 10, <<>>, "Goblin")
\* Orc.__init__ with the statistics of a data file
Orc == Enemy("Orc", 30, 45, 5, 1, 25, <<"orc_axe">>, "Orc")
\* an enemy of the base class, as a data file would describe it
Troll == Enemy("Troll", 30, 40, 3, 2, 120, <<"troll_hide">>, "Enemy")

Enemy_get_initiative_bonus(e) == e.initiative_bonus

Enemy_is_alive(e) == e.health > 0

\* take_damage with the operands of the subtraction exchanged
Enemy_take_damage_swapped(e, damage) ==
  LET actual_damage == Max(0, e.defense - damage)
      h == e.health - actual_damage
  IN [e EXCEPT !.health = IF h < 0 THEN 0 ELSE h]

Enemy_take_damage(e, damage) ==
  LET actual_damage == Max(0, damage - e.defense)
      h == e.health - actual_damage
  IN [e EXCEPT !.health = IF h < 0 THEN 0 ELSE h]

\* isinstance(obj, cls) over the classes Enemy > Goblin, Orc, by class name
IsInstance(enemy_type, cls) == cls = "Enemy" \/ enemy_type = cls

\* Enemy.attack / Goblin.attack / Orc.attack: the damage handed to
\* target.take_damage, or -1 when take_damage is not called (Goblin miss).
\* Orc.attack multiplies a local by 1.5 on a critical draw and then calls
\* Enemy.attack, which reads self.attack_power again.
NoDamage == -1
Enemy_attack_damage(e, miss, crit) ==
  CASE e.enemy_type = "Goblin" -> IF miss THEN NoDamage ELSE e.attack_power
    [] e.enemy_type = "Orc" -> e.attack_power
    [] OTHER -> e.attack_power

Enemy_attack(e, p, miss, crit) ==
  LET damage == Enemy_attack_damage(e, miss, crit)
  IN IF damage = NoDamage THEN p ELSE Player_take_damage(p, damage)

\* Player.attack(target_enemy)
Player_attack(p, e) == Enemy_take_damage(e, get_effective_attack_power(p))

(***************************************************************************)
(* State                                                                   *)
(***************************************************************************)
VARIABLES
  player,              \* the Player object
  enemies,             \* the list handed to Combat.initiate_combat
  room_items,          \* player.current_room.items
  turn_order,          \* local of initiate_combat: 0 is the player, i is enemies[i]
  current_turn_index,  \* local of initiate_combat
  pc,                  \* "idle" before the call, "turn" at the head of a turn, "done" after
  outcome,             \* how the loop ended: "Ongoing", "Victory", "Defeat", "Error"
  returned,            \* how the call ended: "none", "True", "False", "AttributeError"
  ops_left,            \* direct calls still allowed before the encounter
  fled,                \* the flee draw has succeeded (combat.py line 128 was executed)
  start,               \* experience and level of the player when the encounter started
  xp_awarded,          \* arguments of the gain_experience calls made by the encounter
  last,                \* what the last step did
  story,               \* the Story object
  story_last,          \* the last call on the Story object and what it returned
  rewarded,            \* ids of the quests whose reward was granted, in order
  prompt,              \* the choice line at which handle_dialogue waits for input
  current_player,      \* main.py's global: None or the Player of the session
  current_world,       \* main.py's global: None or the World of the session
  save_file,           \* data/saved_games/save_01.json
  load_last            \* how load_game ended if it was the last call of the menu

vars == <<player, enemies, room_items, turn_order, current_turn_index, pc, outcome,
          returned, ops_left, fled, start, xp_awarded, last, story, story_last, rewarded,
          prompt, current_player, current_world, save_file, load_last>>

\* the variables of the encounter, and those of the Story object
combatVars == <<enemies, room_items, turn_order, current_turn_index, pc, outcome,
                returned, ops_left, fled, start, xp_awarded, last>>
storyVars == <<story, story_last, rewarded, prompt>>
sessionVars == <<current_player, current_world, save_file, load_last>>

PLAYER == 0
NOBODY == -1

NoStep == [kind |-> "none", who |-> NOBODY, verb |-> "", alive |-> FALSE, attacks |-> 0,
           target |-> NOBODY, damage |-> 0, hp_before |-> 0, rolls |-> <<>>, amount |-> 0,
           crit |-> FALSE, name |-> "", result |-> "none"]

(***************************************************************************)
(* Inputs                                                                  *)
(***************************************************************************)
\* the enemy lists an encounter is started with
Encounters ==
  { <<Goblin>>, <<Orc>>, <<Troll>>, <<Goblin, Orc>>, <<Orc, Goblin>>,
    <<Troll, Goblin>>, <<Goblin, Goblin>> }

\* what the player carries and wears when the encounter starts
Loadouts ==
  { [inventory |-> <<>>, equipped_items |-> [s \in Slots |-> NoItem]],
    [inventory |-> <<HealthPotion>>, equipped_items |-> [s \in Slots |-> NoItem]],
    [inventory |-> <<LeatherArmor, StrengthPotion>>,
     equipped_items |-> [s \in Slots |-> IF s = "body" THEN LeatherArmor ELSE NoItem]] }

\* representative draws of random.randint(1, 20)
Rolls == {1, 6, 20}

\* arguments of the direct calls
DamageInputs == {1, 20, 150}
HealInputs == {30}
XpInputs == {99, 300}

\* awards around the thresholds 100 (level 1) and 282.84... (level 2)
LevelXpInputs == {99, 100, 182, 183, 300}

\* what the player can type at the combat prompt
Verbs == {"attack", "use", "defend", "run", "dance"}
TargetNames == {"goblin", "orc", "troll", "health potion", "strength potion",
                "leather armor", "nobody"}

(***************************************************************************)
(* Combat (game/combat.py)                                                 *)
(***************************************************************************)
AnyAlive(es) == \E i \in 1..Len(es) : Enemy_is_alive(es[i])

\* the score without the initiative bonus
Score_draw_only(p, es, rolls, c) == rolls[c]

\* score of combatant c: draw + initiative bonus
Score(p, es, rolls, c) ==
  IF c = PLAYER THEN rolls[PLAYER] + Player_get_initiative_bonus(p)
  ELSE rolls[c] + Enemy_get_initiative_bonus(es[c])

RECURSIVE InsertDesc(_, _, _)
\* x placed behind every element of the sorted list whose score is at least its own
InsertDesc(sorted, x, score) ==
  IF sorted = <<>> THEN <<x>>
  ELSE IF score[Head(sorted)] >= score[x]
         THEN <<Head(sorted)>> \o InsertDesc(Tail(sorted), x, score)
         ELSE <<x>> \o sorted

RECURSIVE SortDesc(_, _)
\* list.sort(key=score, reverse=True): stable, descending
SortDesc(list, score) ==
  IF list = <<>> THEN <<>>
  ELSE InsertDesc(SortDesc(SubSeq(list, 1, Len(list) - 1), score), list[Len(list)], score)

\* Combat.get_initiative: the player first, then the enemies in list order, sorted
get_initiative(p, es, rolls) ==
  LET score == [c \in 0..Len(es) |-> Score(p, es, rolls, c)]
      arrival == [k \in 1..(Len(es) + 1) |-> k - 1]
  IN SortDesc(arrival, score)

\* the condition of the while loop (line 62)
LoopCondition(p, es) == Player_is_alive(p) /\ AnyAlive(es)

\* the check after a turn (line 74)
CombatEnds(p, es) == ~Player_is_alive(p) \/ ~AnyAlive(es)

\* the next index without the wrap to the head of the order
NextTurnIndex_no_wrap(i, n) == IF i + 1 >= n THEN i ELSE i + 1

\* line 77
NextTurnIndex(i, n) == (i + 1) % n

\* the sum taken over the living enemies
TotalXp_of_living(es) ==
  SumSet([i \in 1..Len(es) |-> es[i].loot_xp], {i \in 1..Len(es) : Enemy_is_alive(es[i])})

\* sum(enemy.loot_xp for enemy in enemies if not enemy.is_alive())
TotalXp(es) ==
  SumSet([i \in 1..Len(es) |-> es[i].loot_xp], {i \in 1..Len(es) : ~Enemy_is_alive(es[i])})

\* lines 81-94: what follows the loop.  Room has no add_loot method, so the first
\* dead enemy of the loot loop raises AttributeError after the experience was granted.
Conclude(p, es) ==
  IF Player_is_alive(p)
    THEN [player |-> gain_experience(p, TotalXp(es)),
          outcome |-> "Victory",
          xp_awarded |-> <<TotalXp(es)>>,
          returned |-> IF \E i \in 1..Len(es) : ~Enemy_is_alive(es[i])
                         THEN "AttributeError" ELSE "True"]
    ELSE [player |-> p, outcome |-> "Defeat", xp_awarded |-> <<>>, returned |-> "False"]

\* the rest of the loop body after a turn (lines 73-79), the loop condition and,
\* when the loop is left, lines 81-94
AfterTurn(p, es, step) ==
  IF CombatEnds(p, es) \/ ~LoopCondition(p, es)
    THEN LET c == Conclude(p, es)
         IN /\ player' = c.player
            /\ outcome' = c.outcome
            /\ xp_awarded' = xp_awarded \o c.xp_awarded
            /\ returned' = c.returned
            /\ pc' = "done"
            /\ current_turn_index' =
                 IF CombatEnds(p, es) THEN current_turn_index
                 ELSE NextTurnIndex(current_turn_index, Len(turn_order))
            /\ enemies' = es
            /\ last' = step
            /\ UNCHANGED <<room_items, turn_order, ops_left, start>>
            /\ UNCHANGED <<storyVars, sessionVars>>
    ELSE /\ player' = p
         /\ enemies' = es
         /\ current_turn_index' = NextTurnIndex(current_turn_index, Len(turn_order))
         /\ pc' = "turn"
         /\ last' = step
         /\ UNCHANGED <<room_items, turn_order, outcome, returned, ops_left, start, xp_awarded>>
         /\ UNCHANGED <<storyVars, sessionVars>>

Current == turn_order[current_turn_index + 1]

\* the prompt is shown again: nothing but the record of the step changes
Reprompt(verb) ==
  /\ last' = [NoStep EXCEPT !.kind = "reprompt", !.who = PLAYER, !.verb = verb, !.alive = TRUE]
  /\ UNCHANGED <<player, enemies, room_items, turn_order, current_turn_index, pc, outcome,
                 returned, ops_left, fled, start, xp_awarded>>
  /\ UNCHANGED <<storyVars, sessionVars>>

PlayerStep(verb) ==
  [NoStep EXCEPT !.kind = "player_turn", !.who = PLAYER, !.verb = verb, !.alive = TRUE]

\* the search without the is_alive() condition
TargetEnemy_ignores_alive(es, target_name) ==
  LET hits == {i \in 1..Len(es) : Lower(es[i].name) = target_name}
  IN IF hits = {} THEN NOBODY ELSE CHOOSE k \in hits : \A m \in hits : k <= m

\* next((e for e in enemies if e.name.lower() == target_name and e.is_alive()), None)
TargetEnemy(es, target_name) ==
  LET hits == {i \in 1..Len(es) : Lower(es[i].name) = target_name /\ Enemy_is_alive(es[i])}
  IN IF hits = {} THEN NOBODY ELSE CHOOSE k \in hits : \A m \in hits : k <= m

\* Combat._handle_player_turn, one answer to the prompt: "attack <name>"
PromptAttack(target_name) ==
  /\ pc = "turn" /\ Current = PLAYER
  /\ LET t == TargetEnemy(enemies, target_name)
     IN IF t # NOBODY
          THEN /\ AfterTurn(reset_defense(player),
                            [enemies EXCEPT ![t] = Player_attack(player, @)],
                            [PlayerStep("attack") EXCEPT
                               !.target = t,
                               !.damage = get_effective_attack_power(player),
                               !.hp_before = enemies[t].health])
               /\ UNCHANGED fled
          ELSE Reprompt("attack")

\* "use <name>"
PromptUse(item_name) ==
  /\ pc = "turn" /\ Current = PLAYER
  /\ LET r == use_item(player, item_name)
     IN CASE r.raised ->
               /\ pc' = "done"
               /\ outcome' = "Error"
               /\ returned' = "AttributeError"
               /\ last' = [PlayerStep("use") EXCEPT !.kind = "player_turn_raised"]
               /\ UNCHANGED <<player, enemies, room_items, turn_order, current_turn_index,
                              ops_left, fled, start, xp_awarded>>
               /\ UNCHANGED <<storyVars, sessionVars>>
          [] ~r.raised /\ r.ok ->
               /\ AfterTurn(reset_defense(r.p), enemies, PlayerStep("use"))
               /\ UNCHANGED fled
          [] OTHER -> Reprompt("use")

\* "defend"
PromptDefend ==
  /\ pc = "turn" /\ Current = PLAYER
  /\ AfterTurn(reset_defense(defend(player)), enemies, PlayerStep("defend"))
  /\ UNCHANGED fled

\* "run": on a successful draw _handle_player_turn returns False, a value
\* initiate_combat does not look at
PromptRun(success) ==
  /\ pc = "turn" /\ Current = PLAYER
  /\ AfterTurn(reset_defense(player), enemies, PlayerStep("run"))
  /\ fled' = (fled \/ success)

\* anything else
PromptInvalid(verb) ==
  /\ pc = "turn" /\ Current = PLAYER
  /\ verb \notin {"attack", "use", "defend", "run"}
  /\ Reprompt(verb)

\* the turn of enemies[Current] (lines 67-71 and Combat._handle_enemy_turn)
EnemyTurn(miss, crit) ==
  /\ pc = "turn" /\ Current # PLAYER
  /\ LET c == Current
         e == enemies[c]
         acts == IsInstance(e.enemy_type, enemies[1].enemy_type) /\ Enemy_is_alive(e)
         damage == IF acts THEN Enemy_attack_damage(e, miss, crit) ELSE NoDamage
     IN AfterTurn(IF acts THEN Enemy_attack(e, player, miss, crit) ELSE player,
                  enemies,
                  [NoStep EXCEPT !.kind = "enemy_turn", !.who = c,
                                 !.alive = Enemy_is_alive(e),
                                 !.attacks = IF acts THEN 1 ELSE 0,
                                 !.target = IF damage = NoDamage THEN NOBODY ELSE PLAYER,
                                 !.damage = IF damage = NoDamage THEN 0 ELSE damage,
                                 !.hp_before = IF damage = NoDamage THEN 0 ELSE player.health])
  /\ UNCHANGED fled

\* Combat.initiate_combat up to the first turn (lines 52-62)
StartCombat(rolls) ==
  /\ pc = "idle"
  /\ turn_order' = get_initiative(player, enemies, rolls)
  /\ current_turn_index' = 0
  /\ start' = [experience |-> player.experience, level |-> player.level]
  /\ last' = [NoStep EXCEPT !.kind = "start", !.rolls = rolls]
  /\ IF LoopCondition(player, enemies)
       THEN /\ pc' = "turn"
            /\ UNCHANGED <<player, outcome, returned, xp_awarded>>
       ELSE LET c == Conclude(player, enemies)
            IN /\ pc' = "done"
               /\ player' = c.player
               /\ outcome' = c.outcome
               /\ returned' = c.returned
               /\ xp_awarded' = c.xp_awarded
  /\ ops_left' = 0
  /\ UNCHANGED <<enemies, room_items, fled>>
  /\ UNCHANGED <<storyVars, sessionVars>>

(***************************************************************************)
(* Direct calls on the combatants, outside an encounter                    *)
(***************************************************************************)
OpFrame ==
  /\ ops_left' = ops_left - 1
  /\ UNCHANGED <<room_items, turn_order, current_turn_index, pc, outcome, returned,
                 fled, start, xp_awarded>>
  /\ UNCHANGED <<storyVars, sessionVars>>

OpPlayerTakeDamage(d) ==
  /\ pc = "idle" /\ ops_left > 0
  /\ player' = Player_take_damage(player, d)
  /\ last' = [NoStep EXCEPT !.kind = "op", !.who = PLAYER, !.verb = "take_damage",
                            !.target = PLAYER, !.damage = d, !.hp_before = player.health]
  /\ UNCHANGED enemies
  /\ OpFrame

OpEnemyTakeDamage(i, d) ==
  /\ pc = "idle" /\ ops_left > 0
  /\ i \in 1..Len(enemies)
  /\ enemies' = [enemies EXCEPT ![i] = Enemy_take_damage(@, d)]
  /\ last' = [NoStep EXCEPT !.kind = "op", !.who = i, !.verb = "take_damage",
                            !.target = i, !.damage = d, !.hp_before = enemies[i].health]
  /\ UNCHANGED player
  /\ OpFrame

OpHeal(a) ==
  /\ pc = "idle" /\ ops_left > 0
  /\ player' = heal(player, a)
  /\ last' = [NoStep EXCEPT !.kind = "op", !.who = PLAYER, !.verb = "heal"]
  /\ UNCHANGED enemies
  /\ OpFrame

OpGainExperience(x) ==
  /\ pc = "idle" /\ ops_left > 0
  /\ player' = gain_experience(player, x)
  /\ last' = [NoStep EXCEPT !.kind = "op", !.who = PLAYER, !.verb = "gain_experience",
                            !.amount = x]
  /\ UNCHANGED enemies
  /\ OpFrame

OpDefend ==
  /\ pc = "idle" /\ ops_left > 0
  /\ player' = defend(player)
  /\ last' = [NoStep EXCEPT !.kind = "op", !.who = PLAYER, !.verb = "defend"]
  /\ UNCHANGED enemies
  /\ OpFrame

(***************************************************************************)
(* Story (game/story.py)                                                   *)
(***************************************************************************)
\* a dict without entries, a dict with key k set to v, a dict without key k
EmptyMap == [k \in {} |-> 0]
Put(m, k, v) == [x \in DOMAIN m \cup {k} |-> IF x = k THEN v ELSE m[x]]
Del(m, k) == [x \in DOMAIN m \ {k} |-> m[x]]

\* one entry of quest_data as a data file gives it: no objective completed
QuestTemplate(title, description, objective_ids, reward_xp, reward_items, initial_quest) ==
  [title |-> title, description |-> description,
   objectives |-> [o \in objective_ids |-> FALSE],
   reward_xp |-> reward_xp, reward_items |-> reward_items, initial_quest |-> initial_quest]

QuestIds == {"find_treasure", "rat_problem"}

\* quest_data in which the quests of the set initial carry initial_quest
QuestData(initial) ==
  [q \in QuestIds |->
     IF q = "find_treasure"
       THEN QuestTemplate("Find the Treasure", "A chest lies beyond the river.",
                          {"find_map", "cross_river", "open_chest", "return_home"},
                          150, <<"gold_ring">>, q \in initial)
       ELSE QuestTemplate("Rat Problem", "Rats are in the barn.", {"kill_rats"}, 60, <<>>, q \in initial)]

\* the sets of initial quests a Story is constructed with
InitialQuestInputs == { {}, {"rat_problem"} }

\* arguments of the calls on the Story
QuestIdInputs == QuestIds \cup {"no_such_quest"}
ObjectiveIdInputs ==
  {"find_map", "cross_river", "open_chest", "return_home", "kill_rats", "no_such_objective"}

\* {'quest_id': quest_id, **data} for an entry of quest_data: data['objectives'] is
\* handed over as it is, so the new dict holds the very dict of the template.  It
\* is written as a reference: the id of the quest_data entry that owns the dict.
QuestDetails(quest_id, data) == Put(Put(data, "quest_id", quest_id), "objectives", quest_id)

\* data.get(key, default)
Get(data, key, default) == IF key \in DOMAIN data THEN data[key] ELSE default

\* Quest.__init__: the field objectives is the reference it was given
Quest(quest_id, title, description, objectives, reward_xp, reward_items, status) ==
  [quest_id |-> quest_id, title |-> title, description |-> description,
   objectives |-> objectives, reward_xp |-> reward_xp, reward_items |-> reward_items,
   status |-> status]

\* the snapshot of a quest that leaves the status out
Quest_to_dict_without_status(quest) ==
  [quest_id |-> quest.quest_id, title |-> quest.title, description |-> quest.description,
   objectives |-> quest.objectives, reward_xp |-> quest.reward_xp,
   reward_items |-> quest.reward_items]

\* Quest.to_dict()
Quest_to_dict(quest) ==
  [quest_id |-> quest.quest_id, title |-> quest.title, description |-> quest.description,
   objectives |-> quest.objectives, reward_xp |-> quest.reward_xp,
   reward_items |-> quest.reward_items, status |-> quest.status]

\* Quest.from_dict(data)
Quest_from_dict(data) ==
  Quest(data["quest_id"], data["title"], data["description"], data["objectives"],
        data["reward_xp"], Get(data, "reward_items", <<>>),
        Get(data, "status", "not_started"))

\* the dict that quest.objectives refers to: objective id -> completed
Objectives(S, quest) == S.quest_data[quest.objectives].objectives

\* an unknown objective id is entered into the dict as completed
update_objective_adds(S, quest, objective_id) ==
  [story |-> [S EXCEPT !.quest_data[quest.objectives].objectives =
                         Put(@, objective_id, TRUE)],
   ok |-> TRUE]

\* Quest.update_objective(objective_id)
update_objective(S, quest, objective_id) ==
  IF objective_id \in DOMAIN Objectives(S, quest)
    THEN [story |-> [S EXCEPT !.quest_data[quest.objectives].objectives[objective_id] = TRUE],
          ok |-> TRUE]
    ELSE [story |-> S, ok |-> FALSE]

\* Quest.is_completed()
is_completed(S, quest) == \A o \in DOMAIN Objectives(S, quest) : Objectives(S, quest)[o]

\* the loader that starts every quest of quest_data
Story_load_every_quest(S) ==
  [S EXCEPT !.quests =
     [q \in DOMAIN S.quest_data |->
        [Quest_from_dict(QuestDetails(q, S.quest_data[q])) EXCEPT !.status = "active"]]]

\* Story._load_initial_quests
Story_load_initial_quests(S) ==
  [S EXCEPT !.quests =
     [q \in {x \in DOMAIN S.quest_data : S.quest_data[x].initial_quest} |->
        [Quest_from_dict(QuestDetails(q, S.quest_data[q])) EXCEPT !.status = "active"]]]

\* Story.__init__(quest_data, dialogue_data)
Story_init(quest_data) ==
  Story_load_initial_quests([quests |-> EmptyMap, completed_quests |-> EmptyMap,
                             quest_data |-> quest_data, story_progress_flags |-> EmptyMap])

\* start_quest without the test for a quest that is already active
start_quest_restarts_active(S, quest_id) ==
  IF quest_id \in DOMAIN S.quest_data
    THEN [story |-> [S EXCEPT !.quests =
                       Put(@, quest_id, [Quest_from_dict(QuestDetails(quest_id, S.quest_data[quest_id]))
                                           EXCEPT !.status = "active"])],
          result |-> TRUE]
    ELSE [story |-> S, result |-> FALSE]

\* Story.start_quest(player, quest_id)
start_quest(S, quest_id) ==
  IF quest_id \in DOMAIN S.quest_data /\ quest_id \notin DOMAIN S.quests
    THEN [story |-> [S EXCEPT !.quests =
                       Put(@, quest_id, [Quest_from_dict(QuestDetails(quest_id, S.quest_data[quest_id]))
                                           EXCEPT !.status = "active"])],
          result |-> TRUE]
    ELSE [story |-> S, result |-> FALSE]

\* the completion that adds the reward to the experience field directly
Story_complete_quest_no_leveling(S, p, quest_id) ==
  LET quest == [S.quests[quest_id] EXCEPT !.status = "completed"]
  IN [story |-> [S EXCEPT !.completed_quests = Put(@, quest_id, quest),
                          !.quests = Del(@, quest_id)],
      player |-> [p EXCEPT !.experience = @ + quest.reward_xp],
      rewarded |-> <<quest_id>>]

\* Story._complete_quest(player, quest_id)
Story_complete_quest(S, p, quest_id) ==
  LET quest == [S.quests[quest_id] EXCEPT !.status = "completed"]
  IN [story |-> [S EXCEPT !.completed_quests = Put(@, quest_id, quest),
                          !.quests = Del(@, quest_id)],
      player |-> gain_experience(p, quest.reward_xp),
      rewarded |-> <<quest_id>>]

\* Story.complete_objective(player, quest_id, objective_id)
complete_objective(S, p, quest_id, objective_id) ==
  IF quest_id \in DOMAIN S.quests /\ S.quests[quest_id].status = "active"
    THEN LET u == update_objective(S, S.quests[quest_id], objective_id)
         IN IF u.ok /\ is_completed(u.story, u.story.quests[quest_id])
              THEN LET c == Story_complete_quest(u.story, p, quest_id)
                   IN [story |-> c.story, player |-> c.player, rewarded |-> c.rewarded,
                       result |-> TRUE]
              ELSE [story |-> u.story, player |-> p, rewarded |-> <<>>, result |-> TRUE]
    ELSE [story |-> S, player |-> p, rewarded |-> <<>>, result |-> FALSE]

\* Story.to_dict()
Story_to_dict(S) ==
  [quests |-> [q \in DOMAIN S.quests |-> Quest_to_dict(S.quests[q])],
   completed_quests |->
     [q \in DOMAIN S.completed_quests |-> Quest_to_dict(S.completed_quests[q])],
   story_progress_flags |-> S.story_progress_flags]

\* Story.from_dict(data, quest_data_ref, dialogue_data_ref): the constructor loads
\* the initial quests, then the three fields are replaced by those of data
Story_from_dict(data, quest_data_ref) ==
  LET story_instance == Story_init(quest_data_ref)
  IN [story_instance EXCEPT
        !.quests = [q \in DOMAIN data.quests |-> Quest_from_dict(data.quests[q])],
        !.completed_quests =
           [q \in DOMAIN data.completed_quests |-> Quest_from_dict(data.completed_quests[q])],
        !.story_progress_flags = data.story_progress_flags]

(***************************************************************************)
(* Dialogue (Story.handle_dialogue, Story._handle_dialogue_choices)        *)
(***************************************************************************)
\* a key that a line, choice or branch does not carry
Absent == ""
NoObjective == <<>>

\* one entry of 'choices'
Choice(triggers_quest, updates_objective, sets_flag) ==
  [triggers_quest |-> triggers_quest, updates_objective |-> updates_objective,
   sets_flag |-> sets_flag]

\* one entry of 'lines'; choices = <<>> stands for a line without the key 'choices'
Line(triggers_quest, sets_flag, updates_objective, choices) ==
  [triggers_quest |-> triggers_quest, sets_flag |-> sets_flag,
   updates_objective |-> updates_objective, choices |-> choices]

\* one branch of an NPC
Branch(requires_flag, requires_quest_active, lines) ==
  [requires_flag |-> requires_flag, requires_quest_active |-> requires_quest_active,
   lines |-> lines]

NpcIds == {"elder", "farmer", "stranger"}

\* dialogue_data: per NPC its branches in the order of the data file
DialogueData ==
  [npc \in NpcIds |->
     CASE npc = "elder" ->
            << Branch("treasure_found", Absent,
                      << Line(Absent, "elder_proud", NoObjective, <<>>) >>),
               Branch(Absent, Absent,
                      << Line("find_treasure", "met_elder", NoObjective, <<>>),
                         Line(Absent, "asked_elder", NoObjective,
                              << Choice("no_such_quest", <<"find_treasure", "find_map">>, "brave"),
                                 Choice(Absent, <<"find_treasure", "no_such_objective">>,
                                        "treasure_found") >>),
                         Line(Absent, "farewell", NoObjective, <<>>) >>) >>
       [] npc = "farmer" ->
            << Branch(Absent, "rat_problem",
                      << Line(Absent, Absent, <<"rat_problem", "kill_rats">>, <<>>),
                         Line("no_such_quest", "rats_done", <<"rat_problem", "kill_rats">>,
                              <<>>) >>),
               Branch("brave", "find_treasure",
                      << Line(Absent, Absent, <<"find_treasure", "cross_river">>, <<>>) >>) >>
       [] OTHER ->
            << Branch(Absent, Absent,
                      << Line("no_such_quest", Absent, <<"find_treasure", "kill_rats">>, <<>>),
                         Line(Absent, "met_stranger", <<"no_such_quest", "find_map">>, <<>>),
                         Line(Absent, Absent, NoObjective,
                              << Choice("no_such_quest", <<"rat_problem", "find_map">>,
                                        "stranger_answered") >>) >>) >> ]

\* whom the player can try to talk to, and what can be typed at "Choose a number"
NpcIdInputs == NpcIds \cup {"nobody"}
SelectionInputs == {"1", "2", "3", "0", "-1", " 2 ", "two", ""}

\* int(text): the integer, or ValueError
ValueError == [ok |-> FALSE, value |-> 0]
int(text) ==
  CASE text = "1" -> [ok |-> TRUE, value |-> 1]
    [] text = "2" -> [ok |-> TRUE, value |-> 2]
    [] text = " 2 " -> [ok |-> TRUE, value |-> 2]
    [] text = "3" -> [ok |-> TRUE, value |-> 3]
    [] text = "0" -> [ok |-> TRUE, value |-> 0]
    [] text = "-1" -> [ok |-> TRUE, value |-> -1]
    [] OTHER -> ValueError

\* list[i] with Python's indices: 0 is the first entry, -1 the last
PyIndex(list, i) == IF i >= 0 THEN list[i + 1] ELSE list[Len(list) + i + 1]

\* self.story_progress_flags.get(flag, False)
flag_is_set(S, flag) ==
  flag \in DOMAIN S.story_progress_flags /\ S.story_progress_flags[flag]

\* the conditions of a branch (lines 161-167)
conditions_met(S, branch) ==
  /\ branch.requires_flag # Absent => flag_is_set(S, branch.requires_flag)
  /\ branch.requires_quest_active # Absent => branch.requires_quest_active \in DOMAIN S.quests

\* the last branch whose conditions are met
select_branch_last(S, branches) ==
  LET met == {k \in 1..Len(branches) : conditions_met(S, branches[k])}
  IN IF met = {} THEN 0 ELSE CHOOSE k \in met : \A m \in met : m <= k

\* the loop of lines 160-172: the first branch whose conditions are met, 0 if none
select_branch(S, branches) ==
  LET met == {k \in 1..Len(branches) : conditions_met(S, branches[k])}
  IN IF met = {} THEN 0 ELSE CHOOSE k \in met : \A m \in met : k <= m

\* the Story, the player and the rewards granted, as a dialogue changes them
Talk(S, p, granted) == [story |-> S, player |-> p, rewarded |-> granted]

\* self.start_quest(player, quest_id), the return value dropped
do_start_quest(T, quest_id) == [T EXCEPT !.story = start_quest(T.story, quest_id).story]

\* self.complete_objective(player, quest_id, objective_id), the return value dropped
do_complete_objective(T, updates_objective) ==
  LET r == complete_objective(T.story, T.player, updates_objective[1], updates_objective[2])
  IN Talk(r.story, r.player, T.rewarded \o r.rewarded)

\* self.story_progress_flags[flag] = True
do_set_flag(T, flag) == [T EXCEPT !.story.story_progress_flags = Put(@, flag, TRUE)]

\* the effects of a line without choices (lines 186-195)
line_effects(T, line) ==
  LET t1 == IF line.triggers_quest # Absent THEN do_start_quest(T, line.triggers_quest) ELSE T
      t2 == IF line.sets_flag # Absent THEN do_set_flag(t1, line.sets_flag) ELSE t1
  IN IF line.updates_objective # NoObjective
       THEN do_complete_objective(t2, line.updates_objective)
       ELSE t2

\* the effects of the selected choice (lines 220-229)
choice_effects(T, choice) ==
  LET t1 == IF choice.triggers_quest # Absent THEN do_start_quest(T, choice.triggers_quest) ELSE T
      t2 == IF choice.updates_objective # NoObjective
              THEN do_complete_objective(t1, choice.updates_objective)
              ELSE t1
  IN IF choice.sets_flag # Absent THEN do_set_flag(t2, choice.sets_flag) ELSE t2

RECURSIVE process_lines(_, _, _)
\* the loop over the lines of a branch from line k on (lines 176-195): it runs to
\* the end of the branch or to the first line with choices, where the choices
\* are presented before any effect of that line is looked at
process_lines(T, lines, k) ==
  IF k > Len(lines) THEN [talk |-> T, waits_at |-> 0, lines |-> Len(lines)]
  ELSE IF lines[k].choices # <<>> THEN [talk |-> T, waits_at |-> k, lines |-> k]
  ELSE process_lines(line_effects(T, lines[k]), lines, k + 1)

\* Story.handle_dialogue(player, npc_id) up to its return or to the prompt of
\* _handle_dialogue_choices
handle_dialogue(S, p, npc_id) ==
  LET branch == IF npc_id \in DOMAIN DialogueData
                  THEN select_branch(S, DialogueData[npc_id]) ELSE 0
  IN IF branch = 0
       THEN [talk |-> Talk(S, p, <<>>), branch |-> 0, waits_at |-> 0, lines |-> 0]
       ELSE LET r == process_lines(Talk(S, p, <<>>), DialogueData[npc_id][branch].lines, 1)
            IN [talk |-> r.talk, branch |-> branch, waits_at |-> r.waits_at,
                lines |-> r.lines]

\* the range test without its lower end
choice_index_valid_no_lower_end(choice_index, choices_data) ==
  choice_index < Len(choices_data)

\* 0 <= choice_index < len(choices_data)
choice_index_valid(choice_index, choices_data) ==
  0 <= choice_index /\ choice_index < Len(choices_data)

\* the lines after the choice line are processed as well
after_choices_goes_on(T, lines, k) == process_lines(T, lines, k + 1).talk

\* the break of line 184: nothing of the branch is processed after the choices
after_choices(T, lines, k) == T

\* one answer at the prompt of _handle_dialogue_choices: the effects of the
\* selected choice and the end of the dialogue, or the prompt again
handle_dialogue_choices(S, p, lines, k, text) ==
  LET n == int(text)
      choices_data == lines[k].choices
  IN IF n.ok /\ choice_index_valid(n.value - 1, choices_data)
       THEN [talk |-> after_choices(choice_effects(Talk(S, p, <<>>),
                                                   PyIndex(choices_data, n.value - 1)),
                                    lines, k),
             selected |-> TRUE]
       ELSE [talk |-> Talk(S, p, <<>>), selected |-> FALSE]

NoPrompt == [npc_id |-> "", branch |-> 0, line |-> 0]

NoStoryStep ==
  [op |-> "none", quest_id |-> "", objective_id |-> "", result |-> FALSE,
   npc_id |-> "", branch |-> 0, lines |-> 0, selection |-> ""]

\* a call of story.start_quest
CallStartQuest(quest_id) ==
  /\ prompt = NoPrompt
  /\ LET r == start_quest(story, quest_id)
     IN /\ story' = r.story
        /\ story_last' = [NoStoryStep EXCEPT !.op = "start_quest", !.quest_id = quest_id,
                                             !.result = r.result]
  /\ UNCHANGED <<player, rewarded, prompt>>
  /\ UNCHANGED <<combatVars, sessionVars>>

\* a call of story.complete_objective; at most MaxCompletions rewards are granted
CallCompleteObjective(quest_id, objective_id) ==
  /\ prompt = NoPrompt
  /\ LET r == complete_objective(story, player, quest_id, objective_id)
     IN /\ Len(rewarded) + Len(r.rewarded) <= MaxCompletions
        /\ story' = r.story
        /\ player' = r.player
        /\ rewarded' = rewarded \o r.rewarded
        /\ story_last' = [NoStoryStep EXCEPT !.op = "complete_objective",
                                             !.quest_id = quest_id,
                                             !.objective_id = objective_id,
                                             !.result = r.result]
  /\ UNCHANGED prompt
  /\ UNCHANGED <<combatVars, sessionVars>>

\* a call of story.handle_dialogue, up to its return or to the prompt
CallHandleDialogue(npc_id) ==
  /\ prompt = NoPrompt
  /\ LET r == handle_dialogue(story, player, npc_id)
     IN /\ Len(rewarded) + Len(r.talk.rewarded) <= MaxCompletions
        /\ story' = r.talk.story
        /\ player' = r.talk.player
        /\ rewarded' = rewarded \o r.talk.rewarded
        /\ prompt' = IF r.waits_at = 0 THEN NoPrompt
                     ELSE [npc_id |-> npc_id, branch |-> r.branch, line |-> r.waits_at]
        /\ story_last' = [NoStoryStep EXCEPT !.op = "handle_dialogue", !.npc_id = npc_id,
                                             !.branch = r.branch, !.lines = r.lines]
  /\ UNCHANGED <<combatVars, sessionVars>>

\* one line typed at "Choose a number"
AnswerChoice(text) ==
  /\ prompt # NoPrompt
  /\ LET lines == DialogueData[prompt.npc_id][prompt.branch].lines
         r == handle_dialogue_choices(story, player, lines, prompt.line, text)
     IN /\ Len(rewarded) + Len(r.talk.rewarded) <= MaxCompletions
        /\ story' = r.talk.story
        /\ player' = r.talk.player
        /\ rewarded' = rewarded \o r.talk.rewarded
        /\ prompt' = IF r.selected THEN NoPrompt ELSE prompt
        /\ story_last' = [NoStoryStep EXCEPT !.op = "choice", !.npc_id = prompt.npc_id,
                                             !.branch = prompt.branch,
                                             !.lines = prompt.line,
                                             !.selection = text, !.result = r.selected]
  /\ UNCHANGED <<combatVars, sessionVars>>

\* the Story is replaced by Story.from_dict of its own to_dict
CallFromDict ==
  /\ prompt = NoPrompt
  /\ story' = Story_from_dict(Story_to_dict(story), story.quest_data)
  /\ story_last' = [NoStoryStep EXCEPT !.op = "from_dict"]
  /\ UNCHANGED <<player, rewarded, prompt>>
  /\ UNCHANGED <<combatVars, sessionVars>>

(***************************************************************************)
(* Session (main.py): the globals current_player and current_world,        *)
(* create_new_game, save_game and load_game, with the from_dict and        *)
(* to_dict of Player, Item, Enemy, Room and World that they call           *)
(***************************************************************************)
\* Python's None as the value of a global or of an equipment slot
None == [none |-> TRUE]

\* None where a room is expected; rooms are referred to by their id
NoRoom == "None"

\* how a call ends: an exception, or a value
Raise(exception) == [ok |-> FALSE, exception |-> exception]
Value(value) == [ok |-> TRUE, value |-> value]

\* a list of such results: all are values; the values; the first exception
AllOk(results) == \A i \in 1..Len(results) : results[i].ok
Values(results) == [i \in 1..Len(results) |-> results[i].value]
FirstException(results) ==
  results[CHOOSE i \in 1..Len(results) :
            ~results[i].ok /\ \A j \in 1..(i - 1) : results[j].ok].exception

\* _item_classes and get_item_class
ItemClasses == {"Item", "Weapon", "Armor", "Potion"}
get_item_class(item_type) == IF item_type \in ItemClasses THEN item_type ELSE "Item"

\* the keys that from_dict of an item class reads with data[...]
ItemRequiredKeys(cls) ==
  {"item_id", "name", "description"} \cup
    CASE cls = "Weapon" -> {"value", "damage"}
      [] cls = "Armor" -> {"value", "defense"}
      [] cls = "Potion" -> {"value", "effect_type", "effect_strength"}
      [] OTHER -> {}

\* cls.from_dict(data) of Item, Weapon, Armor and Potion.  An item object is
\* written as the dict of its fields, item_type under the key 'type'.
Item_from_dict(cls, data) ==
  IF ~(ItemRequiredKeys(cls) \subseteq DOMAIN data) THEN Raise("KeyError")
  ELSE LET item == [item_id |-> data["item_id"], name |-> data["name"],
                    description |-> data["description"],
                    value |-> Get(data, "value", 0),
                    type |-> IF cls = "Item" THEN Get(data, "type", "Item") ELSE cls]
       IN Value(CASE cls = "Weapon" ->
                       Put(Put(item, "damage", data["damage"]),
                           "weapon_type", Get(data, "weapon_type", "melee"))
                  [] cls = "Armor" ->
                       Put(Put(item, "defense", data["defense"]),
                           "armor_slot", Get(data, "armor_slot", "body"))
                  [] cls = "Potion" ->
                       Put(Put(item, "effect_type", data["effect_type"]),
                           "effect_strength", data["effect_strength"])
                  [] OTHER -> item)

\* item.to_dict(): the fields of the item's class
Item_to_dict(item) == [k \in DOMAIN item |-> item[k]]

\* _enemy_classes and get_enemy_class
EnemyClasses == {"Enemy", "Goblin", "Orc"}
get_enemy_class(enemy_type) == IF enemy_type \in EnemyClasses THEN enemy_type ELSE "Enemy"

\* the keys that Enemy.from_dict reads with data[...]
EnemyRequiredKeys ==
  {"enemy_id", "name", "description", "health", "attack_power", "defense", "loot_xp",
   "initiative_bonus"}

\* cls.from_dict(data) of Enemy, Goblin and Orc: data['loot_xp'] is passed in the
\* place of initiative_bonus and data['initiative_bonus'] in the place of loot_xp,
\* and Enemy.__init__ sets initiative_bonus to 0
Enemy_from_dict(cls, data) ==
  IF ~(EnemyRequiredKeys \subseteq DOMAIN data) THEN Raise("KeyError")
  ELSE Value([enemy_id |-> data["enemy_id"], name |-> data["name"],
              description |-> data["description"],
              max_health |-> data["health"], health |-> data["health"],
              attack_power |-> data["attack_power"], defense |-> data["defense"],
              initiative_bonus |-> 0, loot_xp |-> data["initiative_bonus"],
              loot_items |-> Get(data, "loot_items", <<>>), enemy_type |-> cls])

\* enemy.to_dict()
Enemy_to_dict(enemy) ==
  [enemy_id |-> enemy.enemy_id, name |-> enemy.name, description |-> enemy.description,
   max_health |-> enemy.health, health |-> enemy.health,
   attack_power |-> enemy.attack_power, defense |-> enemy.defense,
   initiative_bonus |-> enemy.initiative_bonus, loot_xp |-> enemy.loot_xp,
   loot_items |-> enemy.loot_items, type |-> enemy.enemy_type]

\* the stats that Player.to_dict writes and Player.from_dict reads with data[...]
PlayerStatKeys ==
  {"max_health", "health", "max_mana", "mana", "attack_power", "defense", "strength",
   "dexterity", "intelligence", "experience", "level", "gold"}

\* Player(name): the Player of a session, current_room being the id of its room
Player_new(name) ==
  [name |-> name, current_room |-> NoRoom, inventory |-> <<>>,
   equipped_items |-> [slot \in Slots |-> None]]
    @@ [k \in PlayerStatKeys |-> PlayerInit[k]]

\* player.to_dict()
Player_to_dict(p) ==
  [name |-> p.name, current_room_id |-> p.current_room,
   inventory |-> [i \in 1..Len(p.inventory) |-> Item_to_dict(p.inventory[i])],
   equipped_items |->
     [slot \in DOMAIN p.equipped_items |->
        IF p.equipped_items[slot] = None THEN None
        ELSE Item_to_dict(p.equipped_items[slot])]]
    @@ [k \in PlayerStatKeys |-> p[k]]

\* Player.from_dict(data)
Player_from_dict(data) ==
  IF ~(({"name"} \cup PlayerStatKeys) \subseteq DOMAIN data) THEN Raise("KeyError")
  ELSE LET from_dict(item_data) ==
             Item_from_dict(get_item_class(Get(item_data, "type", "Item")), item_data)
           item_list == Get(data, "inventory", <<>>)
           inventory == [i \in 1..Len(item_list) |-> from_dict(item_list[i])]
           equipped == Get(data, "equipped_items", EmptyMap)
           filled == {slot \in DOMAIN equipped : equipped[slot] # None}
       IN IF ~AllOk(inventory) THEN Raise(FirstException(inventory))
          ELSE IF \E slot \in filled : ~from_dict(equipped[slot]).ok THEN Raise("KeyError")
          ELSE Value([name |-> data["name"], current_room |-> NoRoom,
                      inventory |-> Values(inventory),
                      equipped_items |->
                        [slot \in Slots \cup DOMAIN equipped |->
                           IF slot \in filled THEN from_dict(equipped[slot]).value
                           ELSE None]]
                       @@ [k \in PlayerStatKeys |-> data[k]])

\* the keys that Room.from_dict reads with data[...]
RoomRequiredKeys == {"room_id", "name", "description", "exits"}

\* Room.from_dict(data, item_classes, enemy_classes): entries whose type is missing
\* or unknown are left out with a warning
Room_from_dict(data) ==
  LET KnownItem(item_data) == Get(item_data, "type", "") \in ItemClasses
      KnownEnemy(enemy_data) == Get(enemy_data, "type", "") \in EnemyClasses
      item_list == SelectSeq(Get(data, "items", <<>>), KnownItem)
      enemy_list == SelectSeq(Get(data, "enemies", <<>>), KnownEnemy)
      items == [i \in 1..Len(item_list) |->
                  Item_from_dict(item_list[i]["type"], item_list[i])]
      room_enemies == [i \in 1..Len(enemy_list) |->
                         Enemy_from_dict(enemy_list[i]["type"], enemy_list[i])]
  IN IF ~AllOk(items) THEN Raise(FirstException(items))
     ELSE IF ~AllOk(room_enemies) THEN Raise(FirstException(room_enemies))
     ELSE IF ~(RoomRequiredKeys \subseteq DOMAIN data) THEN Raise("KeyError")
     ELSE Value([room_id |-> data["room_id"], name |-> data["name"],
                 description |-> data["description"], exits |-> data["exits"],
                 items |-> Values(items), enemies |-> Values(room_enemies)])

\* room.to_dict()
Room_to_dict(room) ==
  [room_id |-> room.room_id, name |-> room.name, description |-> room.description,
   exits |-> room.exits,
   items |-> [i \in 1..Len(room.items) |-> Item_to_dict(room.items[i])],
   enemies |-> [i \in 1..Len(room.enemies) |-> Enemy_to_dict(room.enemies[i])]]

\* World.from_dict(data)
World_from_dict(data) ==
  IF "rooms" \notin DOMAIN data THEN Raise("KeyError")
  ELSE LET rooms == [room_id \in DOMAIN data["rooms"] |->
                       Room_from_dict(data["rooms"][room_id])]
       IN IF \E room_id \in DOMAIN rooms : ~rooms[room_id].ok THEN Raise("KeyError")
          ELSE Value([rooms |-> [room_id \in DOMAIN rooms |-> rooms[room_id].value],
                      start_room_id |-> Get(data, "start_room_id", NoRoom)])

\* world.to_dict()
World_to_dict(world) ==
  [rooms |-> [room_id \in DOMAIN world.rooms |-> Room_to_dict(world.rooms[room_id])],
   start_room_id |-> world.start_room_id]

\* world.get_room_by_id(room_id): self.rooms.get(room_id)
get_room_by_id(world, room_id) == IF room_id \in DOMAIN world.rooms THEN room_id ELSE NoRoom

\* world.get_starting_room()
get_starting_room(world) ==
  IF world.start_room_id # NoRoom THEN get_room_by_id(world, world.start_room_id)
  ELSE NoRoom

\* what load_enemy_data() and load_room_data() return: two rooms without items, a
\* goblin in the second; the cellar has an exit to a room that does not exist
EnemyData ==
  [goblin |-> [name |-> "Goblin", description |-> "A small, green-skinned creature.",
               health |-> 20, attack_power |-> 5, defense |-> 2, initiative_bonus |-> 0,
               loot_xp |-> 10, type |-> "Goblin"]]
RoomData ==
  [hall |-> [name |-> "Hall", description |-> "A draughty hall.",
             exits |-> [north |-> "cellar"], enemies |-> <<>>, is_starting_room |-> TRUE],
   cellar |-> [name |-> "Cellar", description |-> "A damp cellar.",
               exits |-> [south |-> "hall", west |-> "vault"], enemies |-> <<"goblin">>,
               is_starting_room |-> FALSE]]

\* World(room_data, item_data_map, enemy_data_map) for rooms without items
World_new(room_data, enemy_data_map) ==
  LET enemy(enemy_id) ==
        Enemy_from_dict(get_enemy_class(Get(enemy_data_map[enemy_id], "type", "Enemy")),
                        Put(enemy_data_map[enemy_id], "enemy_id", enemy_id)).value
      known(details) ==
        SelectSeq(Get(details, "enemies", <<>>), LAMBDA e : e \in DOMAIN enemy_data_map)
      starting == {room_id \in DOMAIN room_data :
                     Get(room_data[room_id], "is_starting_room", FALSE)}
  IN [rooms |->
        [room_id \in DOMAIN room_data |->
           [room_id |-> room_id, name |-> room_data[room_id]["name"],
            description |-> room_data[room_id]["description"],
            exits |-> Get(room_data[room_id], "exits", EmptyMap),
            items |-> <<>>,
            enemies |-> [i \in 1..Len(known(room_data[room_id])) |->
                           enemy(known(room_data[room_id])[i])]]],
      start_room_id |-> IF starting = {} THEN NoRoom ELSE CHOOSE room_id \in starting : TRUE]

\* player.move(direction, game_world)
move(p, direction, game_world) ==
  LET exits == game_world.rooms[p.current_room].exits
  IN IF direction \in DOMAIN exits /\ get_room_by_id(game_world, exits[direction]) # NoRoom
       THEN [p EXCEPT !.current_room = get_room_by_id(game_world, exits[direction])]
       ELSE p

\* the save file: missing, not JSON, or the JSON of data
NoFile == [exists |-> FALSE]
TextFile == [exists |-> TRUE, json |-> FALSE]
JsonFile(data) == [exists |-> TRUE, json |-> TRUE, data |-> data]

\* save_game(): the file as it is afterwards
save_game(cp, cw, file) ==
  IF cp # None /\ cw # None
    THEN JsonFile([player |-> Player_to_dict(cp), world |-> World_to_dict(cw)])
    ELSE file

\* how a call of load_game ended, and how many of the two globals the try block
\* had assigned when it ended
NoLoad == [outcome |-> "none", assigned |-> 0]
Loaded(cp, cw, how, assigned) ==
  [current_player |-> cp, current_world |-> cw,
   last |-> [outcome |-> how, assigned |-> assigned]]

\* except FileNotFoundError (lines 69-72); cp and cw are the globals when it is entered
except_FileNotFoundError(cp, cw, assigned) == Loaded(None, None, "FileNotFoundError", assigned)

\* a handler that resets current_world only
except_Exception_resets_world_only(cp, cw, e, assigned) == Loaded(cp, None, e, assigned)

\* except Exception as e (lines 73-76)
except_Exception(cp, cw, e, assigned) == Loaded(None, None, e, assigned)

\* load_game(): the globals afterwards; cp and cw are the globals when it is called
load_game(cp, cw, file) ==
  IF ~file.exists THEN except_FileNotFoundError(cp, cw, 0)
  ELSE IF ~file.json THEN except_Exception(cp, cw, "JSONDecodeError", 0)
  ELSE LET saved_game_data == file.data
       IN IF "player" \notin DOMAIN saved_game_data
            THEN except_Exception(cp, cw, "KeyError", 0)
          ELSE
       LET p == Player_from_dict(saved_game_data["player"])
       IN IF ~p.ok THEN except_Exception(cp, cw, p.exception, 0)
          ELSE IF "world" \notin DOMAIN saved_game_data
            THEN except_Exception(p.value, cw, "KeyError", 1)
          ELSE
       LET w == World_from_dict(saved_game_data["world"])
       IN IF ~w.ok THEN except_Exception(p.value, cw, w.exception, 1)
          ELSE IF "current_room_id" \notin DOMAIN saved_game_data["player"]
            THEN except_Exception(p.value, w.value, "KeyError", 2)
          ELSE
       LET room == get_room_by_id(w.value, saved_game_data["player"]["current_room_id"])
           placed == [p.value EXCEPT !.current_room = room]
       IN IF room = NoRoom
            THEN except_Exception(placed, w.value, "AttributeError", 2)
            ELSE Loaded(placed, w.value, "loaded", 2)

\* the names typed at "Enter your hero's name", the directions of "go"
PlayerNames == {"Ayla", "Bren", "Cyd"}
Directions == {"north", "south", "west", "east"}

\* a saved game of Ayla in the hall with a sword, and the files derived from it in
\* which a key is missing or the room is unknown
SwordData ==
  [item_id |-> "sword", name |-> "Sword", description |-> "A plain sword.", value |-> 10,
   type |-> "Weapon", damage |-> 5, weapon_type |-> "melee"]
SavedPlayer ==
  Player_to_dict([Player_new("Ayla") EXCEPT !.current_room = "hall",
                                            !.inventory = <<SwordData>>])
SavedWorld == World_to_dict(World_new(RoomData, EnemyData))
SaveFileInputs ==
  { NoFile, TextFile, JsonFile(EmptyMap),
    JsonFile([player |-> SavedPlayer, world |-> SavedWorld]),
    JsonFile([player |-> Del(SavedPlayer, "gold"), world |-> SavedWorld]),
    JsonFile([player |-> [SavedPlayer EXCEPT !.inventory = <<Del(SwordData, "damage")>>],
              world |-> SavedWorld]),
    JsonFile([player |-> [SavedPlayer EXCEPT !.equipped_items["main_hand"] =
                                               Del(SwordData, "name")],
              world |-> SavedWorld]),
    JsonFile([player |-> SavedPlayer]),
    JsonFile([player |-> SavedPlayer, world |-> Del(SavedWorld, "rooms")]),
    JsonFile([player |-> SavedPlayer,
              world |-> [SavedWorld EXCEPT !.rooms["hall"] = Del(@, "exits")]]),
    JsonFile([player |-> SavedPlayer,
              world |-> [SavedWorld EXCEPT !.rooms["cellar"].enemies[1] = Del(@, "loot_xp")]]),
    JsonFile([player |-> Del(SavedPlayer, "current_room_id"), world |-> SavedWorld]),
    JsonFile([player |-> [SavedPlayer EXCEPT !.current_room_id = "vault"],
              world |-> SavedWorld]),
    JsonFile([player |-> [SavedPlayer EXCEPT !.current_room_id = NoRoom],
              world |-> SavedWorld]) }

\* the main menu is shown while no session is running (main_game_loop, line 184)
InSession == current_player # None /\ current_world # None

SessionFrame == UNCHANGED <<player, combatVars, storyVars>>

\* menu choice 1: create_new_game()
CreateNewGame(name) ==
  /\ ~InSession
  /\ LET world == World_new(RoomData, EnemyData)
     IN /\ current_player' = [Player_new(name) EXCEPT
                                !.current_room = get_starting_room(world)]
        /\ current_world' = world
  /\ load_last' = NoLoad
  /\ UNCHANGED save_file
  /\ SessionFrame

\* menu choice 2: load_game()
LoadGame ==
  /\ ~InSession
  /\ LET r == load_game(current_player, current_world, save_file)
     IN /\ current_player' = r.current_player
        /\ current_world' = r.current_world
        /\ load_last' = r.last
  /\ UNCHANGED save_file
  /\ SessionFrame

\* the command "go <direction>"
Move(direction) ==
  /\ InSession
  /\ current_player' = move(current_player, direction, current_world)
  /\ load_last' = NoLoad
  /\ UNCHANGED <<current_world, save_file>>
  /\ SessionFrame

\* the command "quit", confirmed: save_game() and the end of the process; the
\* program is then started again, its globals None
QuitAndRunAgain ==
  /\ InSession
  /\ save_file' = save_game(current_player, current_world, save_file)
  /\ current_player' = None
  /\ current_world' = None
  /\ load_last' = NoLoad
  /\ SessionFrame

(***************************************************************************)
(* Construction of enemies and direct calls on them                        *)
(***************************************************************************)
\* the initiative bonuses enemies are constructed with
BonusInputs == {0, 2}

\* an enemy of the class and statistics of template is constructed with the
\* initiative bonus b and joins the list
ConstructEnemy(template, b) ==
  /\ pc = "idle" /\ ops_left > 0
  /\ Len(enemies) < 2
  /\ enemies' = Append(enemies,
                       Enemy(template.name, template.max_health, template.attack_power,
                             template.defense, b, template.loot_xp, template.loot_items,
                             template.enemy_type))
  /\ last' = [NoStep EXCEPT !.kind = "op", !.verb = "construct",
                            !.who = Len(enemies) + 1, !.amount = b]
  /\ UNCHANGED player
  /\ OpFrame

\* a call of enemies[i].attack(player) with the draws miss (Goblin) and crit (Orc)
OpEnemyAttack(i, miss, crit) ==
  /\ pc = "idle" /\ ops_left > 0
  /\ i \in 1..Len(enemies)
  /\ LET damage == Enemy_attack_damage(enemies[i], miss, crit)
     IN /\ player' = Enemy_attack(enemies[i], player, miss, crit)
        /\ last' = [NoStep EXCEPT !.kind = "op", !.verb = "attack", !.who = i,
                                  !.crit = crit,
                                  !.attacks = 1,
                                  !.target = IF damage = NoDamage THEN NOBODY ELSE PLAYER,
                                  !.damage = IF damage = NoDamage THEN 0 ELSE damage,
                                  !.hp_before = player.health]
  /\ UNCHANGED enemies
  /\ OpFrame

\* enemies[i] is saved with to_dict and rebuilt, as Room.from_dict does, by
\* from_dict of the class of the saved type
OpEnemyFromDict(i) ==
  /\ pc = "idle" /\ ops_left > 0
  /\ i \in 1..Len(enemies)
  /\ LET e == enemies[i]
         data == Enemy_to_dict(e @@ [enemy_id |-> "enemy", description |-> ""])
         loaded == Enemy_from_dict(data["type"], data).value
     IN enemies' = [enemies EXCEPT ![i] = [k \in DOMAIN e |-> loaded[k]]]
  /\ last' = [NoStep EXCEPT !.kind = "op", !.verb = "from_dict", !.who = i]
  /\ UNCHANGED player
  /\ OpFrame

(***************************************************************************)
(* Direct calls of equip_item, unequip_item and use_item                   *)
(***************************************************************************)
\* the names and slots that can be typed
ItemNameInputs ==
  {"sword", "axe", "leather armor", "chain mail", "cloak", "health potion",
   "strength potion", "shield"}
SlotNameInputs == {"main_hand", "body", "head", "back"}

\* what the player owns when the calls begin: two weapons of which one twice, two
\* body armors, an armor without a valid slot and two potions
StartInventory ==
  <<Sword, LeatherArmor, HealthPotion, Cloak, Axe, ChainMail, StrengthPotion, Sword>>

OpEquipItem(item_name) ==
  /\ pc = "idle" /\ ops_left > 0
  /\ player' = equip_item(player, item_name)
  /\ last' = [NoStep EXCEPT !.kind = "op", !.verb = "equip_item", !.name = item_name]
  /\ UNCHANGED enemies
  /\ OpFrame

OpUnequipItem(slot_name) ==
  /\ pc = "idle" /\ ops_left > 0
  /\ player' = unequip_item(player, slot_name)
  /\ last' = [NoStep EXCEPT !.kind = "op", !.verb = "unequip_item", !.name = slot_name]
  /\ UNCHANGED enemies
  /\ OpFrame

\* a call of player.use_item(item_name): what it returned, or that it raised
OpUseItem(item_name) ==
  /\ pc = "idle" /\ ops_left > 0
  /\ LET r == use_item(player, item_name)
     IN /\ player' = r.p
        /\ last' = [NoStep EXCEPT !.kind = "op", !.verb = "use_item", !.name = item_name,
                                  !.result = IF r.raised THEN "AttributeError"
                                             ELSE IF r.ok THEN "True" ELSE "False"]
  /\ UNCHANGED enemies
  /\ OpFrame

(***************************************************************************)
(* Specification                                                           *)
(***************************************************************************)
\* the state after construction, with n direct calls allowed before the encounter
InitWith(n) ==
  /\ \E l \in Loadouts :
       player = [PlayerInit EXCEPT !.inventory = l.inventory,
                                   !.equipped_items = l.equipped_items]
  /\ enemies \in Encounters
  /\ room_items = <<>>
  /\ turn_order = <<>>
  /\ current_turn_index = 0
  /\ pc = "idle"
  /\ outcome = "Ongoing"
  /\ returned = "none"
  /\ ops_left = n
  /\ fled = FALSE
  /\ start = [experience |-> 0, level |-> 1]
  /\ xp_awarded = <<>>
  /\ last = NoStep
  /\ story = Story_init(QuestData({"rat_problem"}))
  /\ story_last = NoStoryStep
  /\ rewarded = <<>>
  /\ prompt = NoPrompt
  /\ current_player = None
  /\ current_world = None
  /\ save_file = NoFile
  /\ load_last = NoLoad

Init == InitWith(MaxOps)

\* the steps of one encounter
NextCombat ==
  \/ \E rolls \in [0..Len(enemies) -> Rolls] : StartCombat(rolls)
  \/ \E t \in TargetNames : PromptAttack(t)
  \/ \E t \in TargetNames : PromptUse(t)
  \/ PromptDefend
  \/ \E success \in BOOLEAN : PromptRun(success)
  \/ \E v \in Verbs : PromptInvalid(v)
  \/ \E miss \in BOOLEAN, crit \in BOOLEAN : EnemyTurn(miss, crit)

\* the direct calls
NextOps ==
  \/ \E d \in DamageInputs : OpPlayerTakeDamage(d)
  \/ \E i \in 1..Len(enemies), d \in DamageInputs : OpEnemyTakeDamage(i, d)
  \/ \E a \in HealInputs : OpHeal(a)
  \/ \E x \in XpInputs : OpGainExperience(x)
  \/ OpDefend

Next == NextCombat \/ NextOps

Spec == Init /\ [][Next]_vars

(***************************************************************************)
(* Encounters under fair scheduling                                        *)
(***************************************************************************)
\* an encounter of the freshly constructed player
InitEncounter == InitWith(0)

\* the loop keeps running: the encounter is started, every turn that arrives is
\* taken and every prompt is answered
SpecFair == InitEncounter /\ [][NextCombat]_vars /\ WF_vars(NextCombat)

\* a freshly constructed Story and Player, no encounter
InitStory ==
  /\ player = PlayerInit
  /\ enemies = <<>>
  /\ room_items = <<>>
  /\ turn_order = <<>>
  /\ current_turn_index = 0
  /\ pc = "idle"
  /\ outcome = "Ongoing"
  /\ returned = "none"
  /\ ops_left = 0
  /\ fled = FALSE
  /\ start = [experience |-> 0, level |-> 1]
  /\ xp_awarded = <<>>
  /\ last = NoStep
  /\ \E initial \in InitialQuestInputs : story = Story_init(QuestData(initial))
  /\ story_last = NoStoryStep
  /\ rewarded = <<>>
  /\ prompt = NoPrompt
  /\ current_player = None
  /\ current_world = None
  /\ save_file = NoFile
  /\ load_last = NoLoad

\* the calls on the Story
NextStory ==
  \/ \E q \in QuestIdInputs : CallStartQuest(q)
  \/ \E q \in QuestIdInputs, o \in ObjectiveIdInputs : CallCompleteObjective(q, o)
  \/ \E npc \in NpcIdInputs : CallHandleDialogue(npc)
  \/ \E text \in SelectionInputs : AnswerChoice(text)
  \/ CallFromDict

SpecStory == InitStory /\ [][NextStory]_vars

\* a freshly constructed player on whom experience and damage are dealt out
InitLevel ==
  /\ player = PlayerInit
  /\ enemies = <<Goblin>>
  /\ room_items = <<>>
  /\ turn_order = <<>>
  /\ current_turn_index = 0
  /\ pc = "idle"
  /\ outcome = "Ongoing"
  /\ returned = "none"
  /\ ops_left = MaxLevelOps
  /\ fled = FALSE
  /\ start = [experience |-> 0, level |-> 1]
  /\ xp_awarded = <<>>
  /\ last = NoStep
  /\ story = Story_init(QuestData({"rat_problem"}))
  /\ story_last = NoStoryStep
  /\ rewarded = <<>>
  /\ prompt = NoPrompt
  /\ current_player = None
  /\ current_world = None
  /\ save_file = NoFile
  /\ load_last = NoLoad

NextLevel ==
  \/ \E x \in LevelXpInputs : OpGainExperience(x)
  \/ \E d \in DamageInputs : OpPlayerTakeDamage(d)

SpecLevel == InitLevel /\ [][NextLevel]_vars

\* the program is started with no session and some save file, or none, on disk
InitSession ==
  /\ player = PlayerInit
  /\ enemies = <<>>
  /\ room_items = <<>>
  /\ turn_order = <<>>
  /\ current_turn_index = 0
  /\ pc = "idle"
  /\ outcome = "Ongoing"
  /\ returned = "none"
  /\ ops_left = 0
  /\ fled = FALSE
  /\ start = [experience |-> 0, level |-> 1]
  /\ xp_awarded = <<>>
  /\ last = NoStep
  /\ story = Story_init(QuestData({}))
  /\ story_last = NoStoryStep
  /\ rewarded = <<>>
  /\ prompt = NoPrompt
  /\ current_player = None
  /\ current_world = None
  /\ save_file \in SaveFileInputs
  /\ load_last = NoLoad

\* the menu choices and commands of main.py
NextSession ==
  \/ \E name \in PlayerNames : CreateNewGame(name)
  \/ LoadGame
  \/ \E direction \in Directions : Move(direction)
  \/ QuitAndRunAgain

SpecSession == InitSession /\ [][NextSession]_vars

\* no enemy is constructed yet; enemies are constructed, hit, made to attack, saved
\* and loaded, and an encounter with them is started
InitEnemy ==
  /\ player = PlayerInit
  /\ enemies = <<>>
  /\ room_items = <<>>
  /\ turn_order = <<>>
  /\ current_turn_index = 0
  /\ pc = "idle"
  /\ outcome = "Ongoing"
  /\ returned = "none"
  /\ ops_left = MaxEnemyOps
  /\ fled = FALSE
  /\ start = [experience |-> 0, level |-> 1]
  /\ xp_awarded = <<>>
  /\ last = NoStep
  /\ story = Story_init(QuestData({}))
  /\ story_last = NoStoryStep
  /\ rewarded = <<>>
  /\ prompt = NoPrompt
  /\ current_player = None
  /\ current_world = None
  /\ save_file = NoFile
  /\ load_last = NoLoad

NextEnemy ==
  \/ \E template \in {Goblin, Orc, Troll}, b \in BonusInputs : ConstructEnemy(template, b)
  \/ \E i \in 1..Len(enemies), d \in DamageInputs : OpEnemyTakeDamage(i, d)
  \/ \E i \in 1..Len(enemies), miss \in BOOLEAN, crit \in BOOLEAN : OpEnemyAttack(i, miss, crit)
  \/ \E i \in 1..Len(enemies) : OpEnemyFromDict(i)
  \/ \E rolls \in [0..Len(enemies) -> Rolls] : Len(enemies) > 0 /\ StartCombat(rolls)

SpecEnemy == InitEnemy /\ [][NextEnemy]_vars

\* a wounded or unwounded player who owns StartInventory and wears nothing
InitItems ==
  /\ \E h \in {60, 100} :
       player = [PlayerInit EXCEPT !.inventory = StartInventory, !.health = h]
  /\ enemies = <<>>
  /\ room_items = <<>>
  /\ turn_order = <<>>
  /\ current_turn_index = 0
  /\ pc = "idle"
  /\ outcome = "Ongoing"
  /\ returned = "none"
  /\ ops_left = MaxItemOps
  /\ fled = FALSE
  /\ start = [experience |-> 0, level |-> 1]
  /\ xp_awarded = <<>>
  /\ last = NoStep
  /\ story = Story_init(QuestData({}))
  /\ story_last = NoStoryStep
  /\ rewarded = <<>>
  /\ prompt = NoPrompt
  /\ current_player = None
  /\ current_world = None
  /\ save_file = NoFile
  /\ load_last = NoLoad

NextItems ==
  \/ \E item_name \in ItemNameInputs : OpEquipItem(item_name)
  \/ \E slot_name \in SlotNameInputs : OpUnequipItem(slot_name)
  \/ \E item_name \in ItemNameInputs : OpUseItem(item_name)

SpecItems == InitItems /\ [][NextItems]_vars

(***************************************************************************)
(* Properties                                                              *)
(***************************************************************************)
TurnKinds == {"player_turn", "enemy_turn"}

\* C1: once the flee draw has succeeded the encounter is over: the call has
\* ended, no experience was granted and the defending flag is false.
C1_FleeEndsEncounter ==
  fled => (pc = "done" /\ outcome \notin {"Victory", "Defeat"}
           /\ xp_awarded = <<>> /\ ~player.defending)

\* C2: after every completed turn the terminal condition is evaluated: a dead
\* player ends the encounter in Defeat, otherwise no living enemy ends it in
\* Victory, otherwise the turn passes to the next position of the unchanged turn
\* order, wrapping; and a turn is only ever taken while the player and some
\* enemy are alive.
C2_TerminalCheckAfterEveryTurn ==
  [][ last'.kind \in TurnKinds =>
        /\ pc = "turn" /\ Player_is_alive(player) /\ AnyAlive(enemies)
        /\ turn_order' = turn_order
        /\ IF ~Player_is_alive(player')
             THEN pc' = "done" /\ outcome' = "Defeat"
             ELSE IF \A i \in 1..Len(enemies') : ~Enemy_is_alive(enemies'[i])
               THEN pc' = "done" /\ outcome' = "Victory"
               ELSE /\ pc' = "turn" /\ outcome' = "Ongoing"
                    /\ current_turn_index' = (current_turn_index + 1) % Len(turn_order) ]_vars

\* witness of C2: the last combatant of a three-party order has acted and the
\* turn has wrapped to the first
C2_Witness ==
  /\ pc = "turn" /\ last.kind = "enemy_turn"
  /\ Len(turn_order) = 3 /\ current_turn_index = 0

\* a turn has just been completed (the prompt was answered with an action that
\* was resolved, or an enemy had its turn)
TurnCompleted == last.kind \in TurnKinds

\* the player has just attacked a living enemy with a blow above its defense
AttackLanded ==
  /\ last.kind = "player_turn" /\ last.verb = "attack"
  /\ last.damage > enemies[last.target].defense

\* C3 as stated: when turns keep being completed, every started encounter
\* eventually ends
C3_AlwaysTerminates ==
  ([]<>TurnCompleted) => ((pc = "turn") ~> (pc = "done"))

\* C3 amended: when the player keeps landing attacks that exceed the target's
\* defense, every started encounter eventually ends: the loop in Victory or
\* Defeat, or the call with an error
C3_TerminatesWhenAttacking ==
  ([]<>AttackLanded) =>
    ((pc = "turn") ~> (pc = "done" /\ outcome \in {"Victory", "Defeat", "Error"}))

\* witness of C3: an encounter that went through turns of both sides and ended
C3_Witness ==
  /\ pc = "done" /\ outcome = "Victory" /\ last.kind = "player_turn"
  /\ last.verb = "attack" /\ Len(turn_order) = 3

RECURSIVE DeadLootXp(_)
\* loot_xp summed over the dead enemies of a list
DeadLootXp(es) ==
  IF es = <<>> THEN 0
  ELSE (IF Head(es).health > 0 THEN 0 ELSE Head(es).loot_xp) + DeadLootXp(Tail(es))

\* C4: an encounter that ended in Victory has called gain_experience exactly
\* once, with the loot_xp of the dead enemies, and the experience grew by that
C4_VictoryGrantsXpOnce ==
  outcome = "Victory" =>
    /\ xp_awarded = <<DeadLootXp(enemies)>>
    /\ player.experience = start.experience + DeadLootXp(enemies)

\* witness of C4: a victory over two enemies, worth 130 experience
C4_Witness ==
  /\ outcome = "Victory" /\ Len(enemies) = 2
  /\ xp_awarded = <<130>> /\ last.kind = "player_turn"

\* C5: the call returns normally with the outcome
C5_ReturnsNormally == pc = "done" => returned \in {"True", "False"}

\* C6: an encounter that ended in Defeat, or in which the flee succeeded, has
\* granted nothing: experience and level are those of the start, no loot placed
C6_NoRewardOnDefeatOrFled ==
  (pc = "done" /\ (outcome = "Defeat" \/ fled)) =>
    /\ player.experience = start.experience
    /\ player.level = start.level
    /\ xp_awarded = <<>>
    /\ room_items = <<>>

\* C7: an enemy whose turn arrives attacks exactly once if it is alive and not
\* at all if it is dead
C7_EnemyTurnIsOneAttack ==
  last.kind = "enemy_turn" => last.attacks = (IF last.alive THEN 1 ELSE 0)

\* C8: a take_damage(d) call on a combatant with defense f (for the player the
\* effective defense of get_effective_defense) sets its health to
\* max(0, health - max(0, d - f)) and changes nothing else of the combatant
C8_TakeDamage ==
  [][ last'.target # NOBODY =>
        LET t == last'.target
            d == last'.damage
        IN IF t = PLAYER
             THEN LET f == get_effective_defense(player)
                      h == Max(0, player.health - Max(0, d - f))
                  IN /\ last'.hp_before = player.health
                     /\ player' = [player EXCEPT !.health = h]
             ELSE LET f == enemies[t].defense
                      h == Max(0, enemies[t].health - Max(0, d - f))
                  IN /\ last'.hp_before = enemies[t].health
                     /\ enemies'[t] = [enemies[t] EXCEPT !.health = h] ]_vars

\* witness of C8: an enemy with health 20 and defense 2 has taken 15 damage
C8_Witness ==
  /\ last.target \notin {NOBODY, PLAYER}
  /\ last.hp_before = 20 /\ last.damage = 15
  /\ enemies[last.target].defense = 2
  /\ enemies[last.target].health = 7

\* the player of the scenario of C9 has just taken 20 raw damage
C9_Scenario ==
  /\ last.target = PLAYER /\ last.damage = 20 /\ last.hp_before = 100
  /\ player.defense = 5 /\ player.dexterity = 10
  /\ \A s \in Slots : player.equipped_items[s].item_type # "Armor"
  /\ ~player.defending

\* C9 as stated: the player ends with health 85
C9_HealthIs85 == C9_Scenario => player.health = 85

\* C9 amended: the player ends with health 100 - max(0, 20 - (5 + 10 div 2)) = 90
C9_HealthIs90 == C9_Scenario => player.health = 90

\* witness of C9: the scenario has happened
C9_Witness == C9_Scenario /\ player.max_health = 100

\* C10: the health of the player and of every enemy is within 0..max_health,
\* and a combatant is alive exactly when its health is positive
C10_HealthInRange ==
  /\ 0 <= player.health /\ player.health <= player.max_health
  /\ Player_is_alive(player) <=> player.health > 0
  /\ \A i \in 1..Len(enemies) :
       /\ 0 <= enemies[i].health /\ enemies[i].health <= enemies[i].max_health
       /\ Enemy_is_alive(enemies[i]) <=> enemies[i].health > 0

\* witness of C10: a blow larger than the remaining health has left the player at 0
C10_Witness ==
  /\ last.target = PLAYER /\ player.health = 0
  /\ last.damage - get_effective_defense(player) > last.hp_before

\* C11: an enemy attack that lands right after the player chose "defend" is
\* reduced by twice the effective defense the player has when not defending
C11_DefendDoublesDefense ==
  [][ ( /\ last.kind = "player_turn" /\ last.verb = "defend"
        /\ last'.kind = "enemy_turn" /\ last'.target = PLAYER )
      => LET undoubled == get_effective_defense([player EXCEPT !.defending = FALSE])
         IN player'.health =
              Max(0, player.health - Max(0, last'.damage - 2 * undoubled)) ]_vars

\* C12: when a turn of the player has ended, whichever action ended it, the
\* defending flag of the player is false
C12_NotDefendingAfterPlayerTurn ==
  last.kind = "player_turn" => ~player.defending

\* witness of C12: a turn that the player ended with "defend" is over
C12_Witness ==
  /\ last.kind = "player_turn" /\ last.verb = "defend"
  /\ pc = "turn" /\ Current # PLAYER
  /\ ~player.defending

\* the combat state that an answer to the prompt may or may not touch
CombatState ==
  <<player, enemies, room_items, turn_order, current_turn_index, pc, outcome, returned,
    fled, xp_awarded>>

C14_InitiativeOrder ==
  last.kind = "start" =>
    LET n == Len(enemies) + 1
        score == [c \in 0..Len(enemies) |->
                    last.rolls[c] + (IF c = PLAYER THEN player.dexterity \div 2
                                     ELSE enemies[c].initiative_bonus)]
    IN /\ Len(turn_order) = n
       /\ {turn_order[k] : k \in 1..n} = 0..Len(enemies)
       /\ \A j \in 1..n, k \in 1..n :
            j < k => \/ score[turn_order[j]] > score[turn_order[k]]
                     \/ /\ score[turn_order[j]] = score[turn_order[k]]
                        /\ turn_order[j] < turn_order[k]

\* witness of C14: an enemy outscores the player, who ties with another enemy
\* and stands in front of it
C14_Witness ==
  /\ last.kind = "start" /\ Len(enemies) = 2
  /\ last.rolls[PLAYER] + player.dexterity \div 2 = last.rolls[1]
  /\ last.rolls[2] > last.rolls[1]
  /\ turn_order = <<2, 0, 1>>

\* C15: start_quest returns false and changes nothing when the quest id is not
\* in the templates or the quest is already active; otherwise it returns true
\* and the quest is in the active set with status 'active'
C15_StartQuest ==
  [][ story_last'.op = "start_quest" =>
        LET q == story_last'.quest_id
        IN IF q \notin DOMAIN story.quest_data \/ q \in DOMAIN story.quests
             THEN /\ story_last'.result = FALSE
                  /\ UNCHANGED <<story, player, rewarded>>
             ELSE /\ story_last'.result = TRUE
                  /\ DOMAIN story'.quests = DOMAIN story.quests \cup {q}
                  /\ story'.quests[q].status = "active"
                  /\ \A x \in DOMAIN story.quests : story'.quests[x] = story.quests[x]
                  /\ story'.completed_quests = story.completed_quests
                  /\ story'.quest_data = story.quest_data
                  /\ UNCHANGED <<player, rewarded>> ]_vars

\* witness of C15: start_quest was called for a quest that was active, with
\* one objective of it already completed, and returned false
C15_Witness ==
  /\ story_last.op = "start_quest" /\ story_last.result = FALSE
  /\ story_last.quest_id \in DOMAIN story.quests
  /\ \E o \in DOMAIN Objectives(story, story.quests[story_last.quest_id]) :
       Objectives(story, story.quests[story_last.quest_id])[o]

\* C16: no quest id is in the active mapping and in the completed mapping
C16_NotActiveAndCompleted ==
  DOMAIN story.quests \cap DOMAIN story.completed_quests = {}

\* C17: a quest id that has reached 'completed' is never 'active' again
C17_StatusOnlyForward ==
  [][ \A q \in DOMAIN story.completed_quests :
        story.completed_quests[q].status = "completed"
        => ~(q \in DOMAIN story'.quests /\ story'.quests[q].status = "active") ]_vars

\* C18: every quest the Story holds, active or completed, has status
\* 'completed' exactly when all of its objectives are marked completed
C18_CompletedIffAllObjectives ==
  /\ \A q \in DOMAIN story.quests :
       story.quests[q].status = "completed" <=> is_completed(story, story.quests[q])
  /\ \A q \in DOMAIN story.completed_quests :
       story.completed_quests[q].status = "completed"
         <=> is_completed(story, story.completed_quests[q])

\* C19: complete_objective returns false and changes nothing when the quest is
\* not active or the objective id is not an objective of the quest; otherwise
\* it returns true and the objective is marked completed
C19_CompleteObjective ==
  [][ story_last'.op = "complete_objective" =>
        LET q == story_last'.quest_id
            o == story_last'.objective_id
        IN IF \/ q \notin DOMAIN story.quests
              \/ story.quests[q].status # "active"
              \/ o \notin DOMAIN story.quest_data[q].objectives
             THEN /\ story_last'.result = FALSE
                  /\ UNCHANGED <<story, player, rewarded>>
             ELSE /\ story_last'.result = TRUE
                  /\ story'.quest_data[q].objectives[o] ]_vars

\* C20: a complete_objective call on an active quest that leaves an objective
\* of it incomplete leaves the quest active in the active set and grants
\* nothing; the call after which all objectives are completed puts the quest
\* with status 'completed' in the completed set, removes it from the active set
\* and grants reward_xp once through gain_experience
C20_CompletesOnLastObjective ==
  [][ ( /\ story_last'.op = "complete_objective"
        /\ story_last'.quest_id \in DOMAIN story.quests
        /\ story.quests[story_last'.quest_id].status = "active"
        /\ story_last'.objective_id
             \in DOMAIN story.quest_data[story_last'.quest_id].objectives )
      => LET q == story_last'.quest_id
             o == story_last'.objective_id
             before == story.quest_data[q].objectives
             open == {x \in DOMAIN before : ~before[x]} \ {o}
         IN IF open # {}
              THEN /\ q \in DOMAIN story'.quests
                   /\ story'.quests[q].status = "active"
                   /\ q \notin DOMAIN story'.completed_quests \ DOMAIN story.completed_quests
                   /\ {x \in DOMAIN before : ~story'.quest_data[q].objectives[x]} = open
                   /\ UNCHANGED <<player, rewarded>>
              ELSE /\ q \notin DOMAIN story'.quests
                   /\ q \in DOMAIN story'.completed_quests
                   /\ story'.completed_quests[q].status = "completed"
                   /\ player' = gain_experience(player, story.quests[q].reward_xp)
                   /\ rewarded' = Append(rewarded, q) ]_vars

\* witness of C20: the quest with four objectives was completed by a call that
\* marked its last open objective, and the reward raised the player's level
C20_Witness ==
  /\ story_last.op = "complete_objective" /\ story_last.quest_id = "find_treasure"
  /\ "find_treasure" \in DOMAIN story.completed_quests
  /\ "find_treasure" \notin DOMAIN story.quests
  /\ rewarded = <<"find_treasure">>
  /\ player.experience = 150 /\ player.level = 2

\* C26: gain_experience adds the amount to the experience and levels up once
\* per threshold that the new experience reaches, so that the experience is
\* below the threshold 100 * level^1.5 of the resulting level; each level-up
\* adds 1 to level, 10 to max health, 5 to max mana, 2 to attack and 1 to
\* defense, strength, dexterity and intelligence, and fills health and mana
C26_GainExperience ==
  [][ (last'.kind = "op" /\ last'.verb = "gain_experience") =>
        LET k == player'.level - player.level
            e == player'.experience
        IN /\ e = player.experience + last'.amount
           /\ k >= 0
           /\ e * e < 10000 * player'.level * player'.level * player'.level
           /\ \A l \in player.level..(player'.level - 1) : e * e >= 10000 * l * l * l
           /\ player'.max_health = player.max_health + 10 * k
           /\ player'.max_mana = player.max_mana + 5 * k
           /\ player'.attack_power = player.attack_power + 2 * k
           /\ player'.defense = player.defense + k
           /\ player'.strength = player.strength + k
           /\ player'.dexterity = player.dexterity + k
           /\ player'.intelligence = player.intelligence + k
           /\ IF k > 0
                THEN player'.health = player'.max_health /\ player'.mana = player'.max_mana
                ELSE player'.health = player.health /\ player'.mana = player.mana
           /\ player'.inventory = player.inventory /\ player'.gold = player.gold ]_vars

\* witness of C26: one award of 300 took a level-1 player over two thresholds
C26_Witness ==
  /\ last.kind = "op" /\ last.verb = "gain_experience" /\ last.amount = 300
  /\ player.experience = 300 /\ player.level = 3
  /\ player.health = 120 /\ player.max_health = 120

\* C27: right after Story.__init__ the active set holds exactly the quests
\* whose template carries initial_quest, each with status 'active', and the
\* completed set and the story flags are empty
C27_StoryInit ==
  story_last.op = "none" =>
    /\ DOMAIN story.quests = {q \in DOMAIN story.quest_data : story.quest_data[q].initial_quest}
    /\ \A q \in DOMAIN story.quests :
         /\ story.quests[q].status = "active"
         /\ story.quests[q].quest_id = q
    /\ DOMAIN story.completed_quests = {}
    /\ DOMAIN story.story_progress_flags = {}

\* witness of C27: a Story was constructed from templates of which one is
\* an initial quest and one is not
C27_Witness ==
  /\ story_last.op = "none"
  /\ DOMAIN story.quests = {"rat_problem"}
  /\ "find_treasure" \in DOMAIN story.quest_data

\* C30: gain_experience levels up whenever the experience is at least
\* 100 * level^1.5 rounded down, so on return the experience is below the
\* rounded-down threshold of the level: experience + 1 <= 100 * level^1.5
C30_LevelsUpAtRoundedThreshold ==
  (last.kind = "op" /\ last.verb = "gain_experience") =>
    (player.experience + 1) * (player.experience + 1)
      <= 10000 * player.level * player.level * player.level

\* the lines of the branch that the last dialogue step worked on
LastLines(step) == DialogueData[step.npc_id][step.branch].lines

\* the lines of a branch that stand before its first line with choices
LinesBeforeChoices(lines) ==
  {k \in 1..Len(lines) : \A j \in 1..k : lines[j].choices = <<>>}

\* C21: handle_dialogue processes the first branch, in declared order, whose
\* requires_flag (if present) is a set flag and whose requires_quest_active (if
\* present) is an active quest; when the NPC is unknown or no branch
\* qualifies, the Story, the player and the rewards are unchanged
C21_FirstQualifyingBranch ==
  [][ story_last'.op = "handle_dialogue" =>
        LET npc == story_last'.npc_id
            branches == IF npc \in DOMAIN DialogueData THEN DialogueData[npc] ELSE <<>>
            flags == story.story_progress_flags
            qualifies(b) ==
              /\ b.requires_flag = Absent \/ (b.requires_flag \in DOMAIN flags /\ flags[b.requires_flag])
              /\ b.requires_quest_active = Absent \/ b.requires_quest_active \in DOMAIN story.quests
            qualifying == {k \in 1..Len(branches) : qualifies(branches[k])}
        IN IF qualifying = {}
             THEN /\ story_last'.branch = 0
                  /\ UNCHANGED <<story, player, rewarded, prompt>>
             ELSE LET first == CHOOSE k \in qualifying : \A m \in qualifying : k <= m
                      lines == branches[first].lines
                  IN /\ story_last'.branch = first
                     /\ \A k \in LinesBeforeChoices(lines) :
                          lines[k].sets_flag # Absent
                            => lines[k].sets_flag \in DOMAIN story'.story_progress_flags ]_vars

\* witness of C21: the first branch of the elder requires a flag that is not
\* set, and the second branch, which requires nothing, was processed
C21_Witness ==
  /\ story_last.op = "handle_dialogue" /\ story_last.npc_id = "elder"
  /\ story_last.branch = 2
  /\ DialogueData["elder"][1].requires_flag = "treasure_found"
  /\ "treasure_found" \notin DOMAIN story.story_progress_flags
  /\ "met_elder" \in DOMAIN story.story_progress_flags

\* C22: when handle_dialogue returns or waits at the choices of a line, the
\* own effects of every line it has worked on, the line with the choices
\* included, are applied: the flag of sets_flag is set, the quest of
\* triggers_quest has been started, the objective of updates_objective of a
\* quest that was active is completed
C22_LineEffectsApplied ==
  [][ (story_last'.op = "handle_dialogue" /\ story_last'.branch > 0) =>
        \A k \in 1..story_last'.lines :
          LET line == LastLines(story_last')[k]
              uo == line.updates_objective
          IN /\ line.sets_flag # Absent
                  => line.sets_flag \in DOMAIN story'.story_progress_flags
             /\ line.triggers_quest \in DOMAIN story.quest_data
                  => line.triggers_quest
                       \in DOMAIN story'.quests \cup DOMAIN story'.completed_quests
             /\ ( /\ uo # NoObjective
                  /\ uo[1] \in DOMAIN story.quests
                  /\ uo[2] \in DOMAIN story.quest_data[uo[1]].objectives )
                  => story'.quest_data[uo[1]].objectives[uo[2]] ]_vars

\* C23: a valid selection at the choices of a line applies the effects of the
\* selected choice, once, and of nothing else: the dialogue is over, no flag of
\* another choice or of a later line of the branch is newly set
C23_ChoiceEndsBranch ==
  [][ ( /\ prompt # NoPrompt /\ story_last'.op = "choice"
        /\ int(story_last'.selection).ok
        /\ int(story_last'.selection).value \in 1..Len(LastLines(prompt)[prompt.line].choices) )
      => LET lines == LastLines(prompt)
             choices == lines[prompt.line].choices
             i == int(story_last'.selection).value
             e == choice_effects(Talk(story, player, <<>>), choices[i])
             before == DOMAIN story.story_progress_flags
             after == DOMAIN story'.story_progress_flags
         IN /\ prompt' = NoPrompt
            /\ story' = e.story
            /\ player' = e.player
            /\ rewarded' = rewarded \o e.rewarded
            /\ after = before \cup ({choices[i].sets_flag} \ {Absent})
            /\ \A j \in (prompt.line + 1)..Len(lines) :
                 lines[j].sets_flag \in after => lines[j].sets_flag \in before ]_vars

\* witness of C23: the first choice of the elder was selected: its flag is set,
\* its objective is completed, and the flags of the line with the choices, of
\* the other choice and of the line after it are not set
C23_Witness ==
  /\ story_last.op = "choice" /\ story_last.npc_id = "elder" /\ story_last.selection = "1"
  /\ prompt = NoPrompt
  /\ story.quest_data["find_treasure"].objectives["find_map"]
  /\ "brave" \in DOMAIN story.story_progress_flags
  /\ "treasure_found" \notin DOMAIN story.story_progress_flags
  /\ "farewell" \notin DOMAIN story.story_progress_flags

\* C24: a selection that is not a number, or a number outside 1..number of
\* choices, changes nothing and leaves the prompt standing
C24_BadSelectionReprompts ==
  [][ ( /\ prompt # NoPrompt /\ story_last'.op = "choice"
        /\ ~( /\ int(story_last'.selection).ok
              /\ int(story_last'.selection).value
                   \in 1..Len(LastLines(prompt)[prompt.line].choices) ) )
      => UNCHANGED <<story, player, rewarded, prompt>> ]_vars

\* witness of C24: "0" was typed at the two choices of the elder and the
\* prompt stands
C24_Witness ==
  /\ story_last.op = "choice" /\ story_last.selection = "0"
  /\ prompt # NoPrompt /\ prompt.npc_id = "elder"
  /\ Len(LastLines(prompt)[prompt.line].choices) = 2

\* a triggers_quest / updates_objective that names nothing it could act on
NoSuchQuest(S, quest_id) == quest_id # Absent /\ quest_id \notin DOMAIN S.quest_data
NoSuchObjective(S, uo) ==
  /\ uo # NoObjective
  /\ \/ uo[1] \notin DOMAIN S.quests
     \/ S.quests[uo[1]].status # "active"
     \/ uo[2] \notin DOMAIN S.quest_data[uo[1]].objectives
RefersToNothing(S, e) ==
  /\ e.triggers_quest = Absent \/ NoSuchQuest(S, e.triggers_quest)
  /\ e.updates_objective = NoObjective \/ NoSuchObjective(S, e.updates_objective)

\* C25: lines and choices whose triggers_quest names no quest template and
\* whose updates_objective names a quest that is not active or an objective the
\* quest does not have leave the active set, the completed set, the objective
\* flags and the player as they are, and the dialogue goes on: the flags of
\* these lines are set and the branch is processed up to its choices or its end
C25_DanglingReferenceIsNoOp ==
  [][ /\ ( /\ story_last'.op = "handle_dialogue" /\ story_last'.branch > 0
           /\ \A k \in LinesBeforeChoices(LastLines(story_last')) :
                RefersToNothing(story, LastLines(story_last')[k]) )
         => LET lines == LastLines(story_last')
            IN /\ story'.quests = story.quests
               /\ story'.completed_quests = story.completed_quests
               /\ story'.quest_data = story.quest_data
               /\ UNCHANGED <<player, rewarded>>
               /\ \A k \in LinesBeforeChoices(lines) :
                    lines[k].sets_flag # Absent
                      => lines[k].sets_flag \in DOMAIN story'.story_progress_flags
               /\ story_last'.lines \notin LinesBeforeChoices(lines) \ {Len(lines)}
      /\ ( /\ prompt # NoPrompt /\ story_last'.op = "choice" /\ story_last'.result
           /\ \A i \in 1..Len(LastLines(prompt)[prompt.line].choices) :
                RefersToNothing(story, LastLines(prompt)[prompt.line].choices[i]) )
         => /\ story'.quests = story.quests
            /\ story'.completed_quests = story.completed_quests
            /\ story'.quest_data = story.quest_data
            /\ UNCHANGED <<player, rewarded>>
            /\ prompt' = NoPrompt ]_vars

\* witness of C25: the stranger's lines name an unknown quest, an objective
\* that the active quest find_treasure does not have and an objective of an
\* unknown quest; the flag of the second line is set and the dialogue waits at
\* the choices of the third line
C25_Witness ==
  /\ story_last.op = "handle_dialogue" /\ story_last.npc_id = "stranger"
  /\ "find_treasure" \in DOMAIN story.quests
  /\ "met_stranger" \in DOMAIN story.story_progress_flags
  /\ prompt = [npc_id |-> "stranger", branch |-> 1, line |-> 3]

\* the fields of a quest, the objectives dict it refers to looked up in S
QuestFields(S, quest) == [quest EXCEPT !.objectives = Objectives(S, quest)]

\* the quests of a dict of quests, each field for field
QuestsFields(S, quests) == [q \in DOMAIN quests |-> QuestFields(S, quests[q])]

\* C28: Story.from_dict(s.to_dict(), quest_data, dialogue_data) has the active
\* quests, the completed quests (equal field for field: id, title, description,
\* objectives with their completed flags, reward_xp, reward_items, status) and the
\* story flags of s, and Quest.from_dict(q.to_dict()) equals q for every quest q
\* of s.
C28_RoundTrip ==
  [][ story_last'.op = "from_dict" =>
        /\ DOMAIN story'.quests = DOMAIN story.quests
        /\ DOMAIN story'.completed_quests = DOMAIN story.completed_quests
        /\ QuestsFields(story', story'.quests) = QuestsFields(story, story.quests)
        /\ QuestsFields(story', story'.completed_quests)
             = QuestsFields(story, story.completed_quests)
        /\ story'.story_progress_flags = story.story_progress_flags
        /\ \A q \in DOMAIN story.quests :
             Quest_from_dict(Quest_to_dict(story.quests[q])) = story.quests[q]
        /\ \A q \in DOMAIN story.completed_quests :
             Quest_from_dict(Quest_to_dict(story.completed_quests[q]))
               = story.completed_quests[q] ]_vars

\* a Story with an active quest that has a completed objective, a completed quest
\* and a flag has been through to_dict and from_dict
C28_Witness ==
  /\ story_last.op = "from_dict"
  /\ \E q \in DOMAIN story.quests :
       \E o \in DOMAIN Objectives(story, story.quests[q]) :
         Objectives(story, story.quests[q])[o]
  /\ DOMAIN story.completed_quests # {}
  /\ DOMAIN story.story_progress_flags # {}

\* C29: when load_game fails (the save file is missing, or any error is raised
\* while the player or the world is rebuilt), current_player and current_world are
\* both unset afterwards, never one set and the other not.
C29_FailedLoadLeavesNoSession ==
  load_last.outcome \notin {"none", "loaded"} =>
    current_player = None /\ current_world = None

\* a load has failed after the try block had assigned current_player
C29_Witness ==
  /\ load_last.outcome = "KeyError"
  /\ load_last.assigned = 1
  /\ current_player = None
  /\ current_world = None

\* C31: an enemy constructed with initiative bonus b reports
\* get_initiative_bonus() = b, so that its initiative score is its draw plus b.
C31_InitiativeBonusKept ==
  (last.kind = "op" /\ last.verb = "construct") =>
    Enemy_get_initiative_bonus(enemies[last.who]) = last.amount

\* C32: when an Orc attacks, the damage passed to the target's take_damage is
\* 1.5 times its attack power if the critical draw succeeds and the attack power
\* itself if it fails.
C32_OrcCriticalDamage ==
  (last.kind = "op" /\ last.verb = "attack" /\ enemies[last.who].enemy_type = "Orc") =>
    IF last.crit THEN 2 * last.damage = 3 * enemies[last.who].attack_power
    ELSE last.damage = enemies[last.who].attack_power

\* C37: for every enemy e, damaged or not, the enemy rebuilt by from_dict from
\* e.to_dict() has the max_health, health, attack_power, defense, initiative_bonus,
\* loot_xp and loot_items of e.
C37_EnemyRoundTrip ==
  [][ (last'.kind = "op" /\ last'.verb = "from_dict") =>
        \A k \in {"max_health", "health", "attack_power", "defense", "initiative_bonus",
                  "loot_xp", "loot_items"} :
          enemies'[last'.who][k] = enemies[last'.who][k] ]_vars

\* the items a player owns: how often each item is in the inventory or in a slot
Owned(p) ==
  LET items == {p.inventory[i] : i \in 1..Len(p.inventory)}
                 \cup ({p.equipped_items[slot] : slot \in Slots} \ {NoItem})
  IN [item \in items |->
        Cardinality({i \in 1..Len(p.inventory) : p.inventory[i] = item})
          + Cardinality({slot \in Slots : p.equipped_items[slot] = item})]

\* C35: every call of equip_item and of unequip_item, also for a missing item, an
\* item that cannot be equipped and an armor with an invalid slot, leaves the
\* multiset of the items in the inventory and the slots as it was: no item is
\* lost and none is duplicated.
C35_EquipKeepsItems ==
  [][ last'.verb \in {"equip_item", "unequip_item"} => Owned(player') = Owned(player) ]_vars

\* a worn armor has been exchanged for another one and a weapon is in the hand
C35_Witness ==
  /\ last.verb = "equip_item"
  /\ player.equipped_items["body"] = ChainMail
  /\ player.equipped_items["main_hand"] # NoItem
  /\ \E i \in 1..Len(player.inventory) : player.inventory[i] = LeatherArmor

\* C36: use_item(name) returns true only if the inventory holds a potion with
\* that name, and then the potion's effect is applied and exactly that item is
\* removed; when it returns false the inventory and the stats are unchanged; it
\* never raises for a potion of the inventory, whatever its effect type.
C36_UseItem ==
  [][ last'.verb = "use_item" =>
        LET hits == {i \in 1..Len(player.inventory) :
                       /\ Lower(player.inventory[i].name) = Lower(last'.name)
                       /\ player.inventory[i].item_type = "Potion"}
        IN /\ last'.result # "AttributeError"
           /\ last'.result = "True" =>
                \E i \in hits :
                  /\ player'.inventory = Pop(player.inventory, i)
                  /\ player.inventory[i].effect_type = "heal" =>
                       player'.health = Min(player.max_health,
                                            player.health + player.inventory[i].effect_strength)
           /\ last'.result = "False" => player' = player ]_vars

\* C33: no operation of the Story changes quest_data, so a quest instantiated by
\* start_quest begins with the objective flags the template had when the Story
\* was created (none completed).
C33_TemplatesImmutable ==
  [][ /\ story'.quest_data = story.quest_data
      /\ (story_last'.op = "start_quest" /\ story_last'.result) =>
           Objectives(story', story'.quests[story_last'.quest_id])
             = QuestData({})[story_last'.quest_id].objectives ]_vars

\* C34: over any sequence of start_quest, complete_objective and dialogue
\* operations the reward of each quest id is granted at most once.
C34_RewardAtMostOnce ==
  \A i \in 1..Len(rewarded) : \A j \in 1..Len(rewarded) :
    rewarded[i] = rewarded[j] => i = j

====
